---- MODULE Spec2Model ----
(***************************************************************************)
(* The Wick-theorem contraction engine of wicked (class WickTheorem):      *)
(* enumeration of the elementary contractions of an operator string, the   *)
(* backtracking generation of composite contractions, the canonicalization *)
(* of a composite and the bookkeeping of its evaluation.                   *)
(*                                                                         *)
(* Sequences are 1-based here and 0-based in the source: operator position *)
(* A of the source is position A+1 here, elementary-contraction index c of *)
(* the source is index c+1 here.  Orbital spaces keep the source's ids.    *)
(***************************************************************************)
EXTENDS Integers, Sequences, FiniteSets, TLC

VARIABLES
  maxcumulant_,             \* WickTheorem::maxcumulant_
  pc,                       \* "idle" | "cleared" | "backtrack" | "process"
  last,                     \* the latest contract call: "new" | "running" | "returned" | "threw" | "exited" | "crashed"
  ops,                      \* argument of the running / latest contract call
  minrank,                  \* argument of the running / latest contract call
  maxrank,                  \* argument of the running / latest contract call
  elementary_contractions_, \* WickTheorem::elementary_contractions_
  contractions_,            \* WickTheorem::contractions_
  ncontractions_,           \* WickTheorem::ncontractions_
  free_vertex_vec,          \* the vector generate_composite_contractions passes by reference
  stack,                    \* activation records of generate_contractions_backtrack
  nproc,                    \* number of composites process_contractions has looped over
  canon,                    \* input and output of the latest canonicalize_contraction
  result,                   \* terms added to the Expression of process_contractions
  contract_factor,          \* the factor given to contract
  sums,                     \* two WDiagOperatorSum objects: sum_ of each
  nsum,                     \* number of operations applied to the operator sums
  lift_in,                  \* arguments of the contract of an operator expression
  lift_todo,                \* the terms of the expression not yet contracted
  lift_result,              \* the Expression accumulated by the contract of an expression
  lift_pc                   \* "idle" | "running" | "returned" | "threw"

wick_vars == <<maxcumulant_, pc, last, ops, minrank, maxrank, elementary_contractions_,
               contractions_, ncontractions_, free_vertex_vec, stack, nproc, canon, result,
               contract_factor>>

sum_vars == <<sums, nsum>>

lift_vars == <<lift_in, lift_todo, lift_result, lift_pc>>

vars == <<wick_vars, sum_vars, lift_vars>>

(***************************************************************************)
(* Bounds of the model.                                                    *)
(***************************************************************************)
MaxOps == 3        \* longest string of one-body operators given to contract
MaxBand == 2       \* largest minrank / maxrank given to contract
MaxK == 2          \* largest value given to set_max_cumulant

(***************************************************************************)
(* Orbital spaces: the registry of tests/ccsd/ccsd.cc (o, v) followed by   *)
(* one General space.                                                      *)
(***************************************************************************)
NumSpaces == 3
Spaces == 0..(NumSpaces - 1)

\* variant: the occupied and the unoccupied space exchanged
space_type_swapped(s) ==
  IF s = 0 THEN "Unoccupied" ELSE IF s = 1 THEN "Occupied" ELSE "General"

space_type(s) ==
  CASE s = 0 -> "Occupied"
    [] s = 1 -> "Unoccupied"
    [] OTHER -> "General"

(***************************************************************************)
(* Small helpers on sequences.                                             *)
(***************************************************************************)
RECURSIVE SumSeq(_)
SumSeq(q) == IF q = <<>> THEN 0 ELSE Head(q) + SumSeq(Tail(q))

RECURSIVE Flatten(_)
Flatten(qq) == IF qq = <<>> THEN <<>> ELSE Head(qq) \o Flatten(Tail(qq))

Min2(x, y) == IF x < y THEN x ELSE y

\* lexicographic order of two sequences of integers (std::vector / std::string operator<)
LexLess(p, q) ==
  LET n == Min2(Len(p), Len(q))
  IN  \/ \E j \in 1..n : p[j] < q[j] /\ \A l \in 1..(j - 1) : p[l] = q[l]
      \/ (Len(p) < Len(q) /\ \A l \in 1..n : p[l] = q[l])

\* the elements of a finite set of integer sequences, in ascending lexicographic order
RECURSIVE SortLex(_)
SortLex(S) ==
  IF S = {} THEN <<>>
  ELSE LET m == CHOOSE x \in S : \A y \in S \ {x} : LexLess(x, y)
       IN  <<m>> \o SortLex(S \ {m})

(***************************************************************************)
(* DiagVertex: per space the number of creation and annihilation legs.     *)
(***************************************************************************)
DiagVertex(cre, ann) == [s \in Spaces |-> [cre |-> cre[s + 1], ann |-> ann[s + 1]]]

ZeroVertex == [s \in Spaces |-> [cre |-> 0, ann |-> 0]]

set_cre(v, s, n) == [v EXCEPT ![s].cre = n]

set_ann(v, s, n) == [v EXCEPT ![s].ann = n]

RECURSIVE rank_from(_, _)
rank_from(v, s) == IF s = NumSpaces THEN 0 ELSE v[s].cre + v[s].ann + rank_from(v, s + 1)

rank(v) == rank_from(v, 0)

VertexSub(v, w) ==
  [s \in Spaces |-> [cre |-> v[s].cre - w[s].cre, ann |-> v[s].ann - w[s].ann]]

VertexAdd(v, w) ==
  [s \in Spaces |-> [cre |-> v[s].cre + w[s].cre, ann |-> v[s].ann + w[s].ann]]

\* the flat list (cre_0, ann_0, cre_1, ann_1, ...) that orders vertices
VertexKey(v) ==
  [i \in 1..(2 * NumSpaces) |->
     IF i % 2 = 1 THEN v[(i - 1) \div 2].cre ELSE v[(i - 1) \div 2].ann]

VertexLess(v, w) == LexLess(VertexKey(v), VertexKey(w))

vertices_rank(vv) == SumSeq([i \in 1..Len(vv) |-> rank(vv[i])])

ZeroVertices(n) == [A \in 1..n |-> ZeroVertex]

\* ---------------------------------------------------------------------------
\* scalar_t: exact rationals <<numerator, denominator>> in lowest terms with a
\* positive denominator.
\* ---------------------------------------------------------------------------

Abs(a) == IF a < 0 THEN -a ELSE a

RECURSIVE Gcd(_, _)
Gcd(a, b) == IF b = 0 THEN a ELSE Gcd(b, a % b)

scalar_t(n, d) ==
  CHOOSE r \in {<<(IF x[2] < 0 THEN -x[1] ELSE x[1]) \div x[3], Abs(x[2]) \div x[3]>> :
                 x \in {<<n, d, Gcd(Abs(n), Abs(d))>>}} : TRUE

Zero == <<0, 1>>

One == <<1, 1>>

RAdd(p, q) == scalar_t(p[1] * q[2] + q[1] * p[2], p[2] * q[2])

RNeg(p) == <<-p[1], p[2]>>

RMul(p, q) == scalar_t(p[1] * q[1], p[2] * q[2])

RDiv(p, q) == scalar_t(p[1] * q[2], p[2] * q[1])

RECURSIVE factorial(_)
factorial(n) == IF n <= 1 THEN 1 ELSE n * factorial(n - 1)

binomial(n, k) == IF k > n THEN 0 ELSE factorial(n) \div (factorial(k) * factorial(n - k))

RECURSIVE ProdSeq(_)
ProdSeq(q) == IF q = <<>> THEN 1 ELSE Head(q) * ProdSeq(Tail(q))

\* parity of the permutation p of 0..n-1
permutation_sign(p) ==
  CHOOSE sign \in
    {IF Cardinality({ij \in (1..Len(q)) \X (1..Len(q)) : ij[1] < ij[2] /\ q[ij[1]] > q[ij[2]]}) % 2 = 0
     THEN 1 ELSE -1 : q \in {p}} : TRUE

(***************************************************************************)
(* DiagOperator: a label (its character codes) and a vertex.               *)
(***************************************************************************)
make_operator(label, ann, cre) ==
  [label |-> label,
   factor |-> scalar_t(1, ProdSeq([i \in 1..NumSpaces |-> factorial(cre[i]) * factorial(ann[i])])),
   vertex |-> DiagVertex(cre, ann)]

OpT1  == make_operator(<<116>>, <<1, 0, 0>>, <<0, 1, 0>>)   \* t  o->v
OpFov == make_operator(<<102>>, <<0, 1, 0>>, <<1, 0, 0>>)   \* f  v->o
OpV   == make_operator(<<118>>, <<0, 2, 0>>, <<2, 0, 0>>)   \* v  vv->oo
OpG1  == make_operator(<<103>>, <<0, 0, 1>>, <<0, 0, 1>>)   \* g  a->a
OpG2  == make_operator(<<104>>, <<0, 0, 2>>, <<0, 0, 2>>)   \* h  aa->aa
OpC   == make_operator(<<99>>,  <<0, 0, 0>>, <<0, 0, 1>>)   \* c  ->a (odd)
OpT2  == make_operator(<<116>>, <<2, 0, 0>>, <<0, 2, 0>>)   \* t  oo->vv
OpFvo == make_operator(<<102>>, <<1, 0, 0>>, <<0, 1, 0>>)   \* f  o->v
OpFvv == make_operator(<<102>>, <<0, 1, 0>>, <<0, 1, 0>>)   \* f  v->v
OpFoo == make_operator(<<102>>, <<1, 0, 0>>, <<1, 0, 0>>)   \* f  o->o
OpW3  == make_operator(<<119>>, <<0, 3, 0>>, <<3, 0, 0>>)   \* w  vvv->ooo
OpT3  == make_operator(<<116>>, <<3, 0, 0>>, <<0, 3, 0>>)   \* t  ooo->vvv

\* the one-body operators
OpCatalog == {OpT1, OpFov, OpG1}

op_cre(op, s) == op.vertex[s].cre

op_ann(op, s) == op.vertex[s].ann

operators_rank(oo) == SumSeq([i \in 1..Len(oo) |-> rank(oo[i].vertex)])

\* strings with a two-body operator or with an operator of odd rank
OpProducts ==
  {<<OpV, OpT1>>, <<OpV, OpT1, OpT1>>, <<OpG2, OpG1>>, <<OpG1, OpG2>>, <<OpG2, OpG2>>,
   <<OpG2, OpC, OpG1>>, <<OpC>>, <<OpC, OpC>>, <<OpG1, OpC>>,
   <<OpV, OpT2>>, <<OpFvo>>, <<OpFvv, OpT1>>, <<OpFoo, OpT1>>}

\* the operator strings given to contract: every string of at most MaxOps one-body
\* operators, and the products above
OpStrings == UNION {[1..n -> OpCatalog] : n \in 1..MaxOps} \cup OpProducts

(***************************************************************************)
(* Step 1: WickTheorem::generate_elementary_contractions.                  *)
(***************************************************************************)
\* all (i, j) in 1..n x 1..n in lexicographic order
AllPairs(n) == [idx \in 1..(n * n) |-> <<((idx - 1) \div n) + 1, ((idx - 1) % n) + 1>>]

\* the contraction with one creation leg at c and one annihilation leg at a
PairContraction(nops, s, c, a) ==
  [A \in 1..nops |->
     IF A = c THEN set_cre(ZeroVertex, s, 1)
     ELSE IF A = a THEN set_ann(ZeroVertex, s, 1)
     ELSE ZeroVertex]

\* loop c (left), a = c + 1 .. nops - 1 (right)
OccupiedContractions(oo, s) ==
  LET nops == Len(oo)
      viable(p) == p[1] < p[2] /\ op_cre(oo[p[1]], s) * op_ann(oo[p[2]], s) > 0
      sel == SelectSeq(AllPairs(nops), viable)
  IN  [i \in 1..Len(sel) |-> PairContraction(nops, s, sel[i][1], sel[i][2])]

\* variant: the viability test of the occupied loop
UnoccupiedContractions_occtest(oo, s) ==
  LET nops == Len(oo)
      viable(p) == p[1] < p[2] /\ op_cre(oo[p[1]], s) * op_ann(oo[p[2]], s) > 0
      sel == SelectSeq(AllPairs(nops), viable)
  IN  [i \in 1..Len(sel) |-> PairContraction(nops, s, sel[i][2], sel[i][1])]

\* loop a (left), c = a + 1 .. nops - 1 (right)
UnoccupiedContractions(oo, s) ==
  LET nops == Len(oo)
      viable(p) == p[1] < p[2] /\ op_cre(oo[p[2]], s) * op_ann(oo[p[1]], s) > 0
      sel == SelectSeq(AllPairs(nops), viable)
  IN  [i \in 1..Len(sel) |-> PairContraction(nops, s, sel[i][2], sel[i][1])]

\* the multiset of parts of a vector, as its ascending sort
RECURSIVE SortInts(_)
SortInts(q) ==
  IF q = <<>> THEN <<>>
  ELSE LET m == CHOOSE i \in 1..Len(q) : \A j \in 1..Len(q) : q[i] <= q[j]
       IN  <<q[m]>> \o SortInts([j \in 1..(Len(q) - 1) |-> IF j < m THEN q[j] ELSE q[j + 1]])

Reverse(q) == [i \in 1..Len(q) |-> q[Len(q) + 1 - i]]

\* integer_partitions(n, m): the non-increasing vectors of m parts >= 0 that sum to n
\* (a partition into at most m parts, zero padded), largest first part first
integer_partitions(n, m) ==
  Reverse(SortLex({p \in [1..m -> 0..n] :
                     /\ SumSeq(p) = n
                     /\ \A i \in 1..(m - 1) : p[i] >= p[i + 1]}))

\* std::sort followed by the std::next_permutation loop: every distinct
\* arrangement of the parts, in ascending lexicographic order
Permutations_of(part) ==
  LET n == Len(part)
      k == SumSeq(part)
  IN  SortLex({q \in [1..n -> 0..k] : SortInts(q) = SortInts(part)})

\* variant: the creation legs are not compared with the operators
cre_compatible_always(oo, s, perm) == TRUE

cre_compatible(oo, s, perm) == \A A \in 1..Len(oo) : ~(op_cre(oo[A], s) < perm[A])

ann_compatible(oo, s, perm) == \A A \in 1..Len(oo) : ~(op_ann(oo[A], s) < perm[A])

\* cre_legs_vec / ann_legs_vec for one value of half_legs
legs_vec(oo, s, half_legs, creation) ==
  LET parts == integer_partitions(half_legs, Len(oo))
      keep(perm) == IF creation THEN cre_compatible(oo, s, perm)
                    ELSE ann_compatible(oo, s, perm)
  IN  Flatten([i \in 1..Len(parts) |-> SelectSeq(Permutations_of(parts[i]), keep)])

\* variant: legs are counted instead of operators
nops_contracted_legs(cre_legs, ann_legs) == SumSeq(cre_legs) + SumSeq(ann_legs)

nops_contracted(cre_legs, ann_legs) ==
  Cardinality({A \in 1..Len(cre_legs) : cre_legs[A] + ann_legs[A] > 0})

GeneralContraction(s, cre_legs, ann_legs) ==
  [A \in 1..Len(cre_legs) |-> set_ann(set_cre(ZeroVertex, s, cre_legs[A]), s, ann_legs[A])]

\* the double loop over cre_legs_vec x ann_legs_vec with the nops_contracted < 2 filter
CumulantContractions(oo, s, half_legs) ==
  LET cv == legs_vec(oo, s, half_legs, TRUE)
      av == legs_vec(oo, s, half_legs, FALSE)
      combos == [idx \in 1..(Len(cv) * Len(av)) |->
                   <<cv[((idx - 1) \div Len(av)) + 1], av[((idx - 1) % Len(av)) + 1]>>]
      keep(p) == ~(nops_contracted(p[1], p[2]) < 2)
      sel == SelectSeq(combos, keep)
  IN  [i \in 1..Len(sel) |-> GeneralContraction(s, sel[i][1], sel[i][2])]

\* variant: the maximum cumulant level is not applied
max_half_legs_nolimit(oo, s, K) ==
  Min2(SumSeq([A \in 1..Len(oo) |-> op_cre(oo[A], s)]),
       SumSeq([A \in 1..Len(oo) |-> op_ann(oo[A], s)]))

max_half_legs(oo, s, K) ==
  LET sumcre == SumSeq([A \in 1..Len(oo) |-> op_cre(oo[A], s)])
      sumann == SumSeq([A \in 1..Len(oo) |-> op_ann(oo[A], s)])
  IN  Min2(Min2(sumcre, sumann), K)

GeneralContractions(oo, s, K) ==
  LET mhl == max_half_legs(oo, s, K)
  IN  IF mhl < 1 THEN <<>>
      ELSE Flatten([half_legs \in 1..mhl |-> CumulantContractions(oo, s, half_legs)])

SpaceContractions(oo, s, K) ==
  CASE space_type(s) = "Occupied"   -> OccupiedContractions(oo, s)
    [] space_type(s) = "Unoccupied" -> UnoccupiedContractions(oo, s)
    [] OTHER                        -> GeneralContractions(oo, s, K)

generate_elementary_contractions(oo, K) ==
  Flatten([i \in 1..NumSpaces |-> SpaceContractions(oo, i - 1, K)])

(***************************************************************************)
(* Step 2: the backtracking generator of composite contractions.           *)
(* A frame of stack is one activation of generate_contractions_backtrack:  *)
(* its by-value copy of a (the entries written so far), its k, and, once   *)
(* the candidates are built, the list and the position of the for loop.    *)
(***************************************************************************)
\* variant: the upper end of the band is not tested
InBand_nomax(r, lo, hi) == (r >= lo)

\* variant: the lower end of the band is not tested
InBand_nomin(r, lo, hi) == (r <= hi)

InBand(r, lo, hi) == (r >= lo) /\ (r <= hi)

free_rank(fv) == SumSeq([A \in 1..Len(fv) |-> rank(fv[A])])

\* contractions_ after process_contraction(a, k, free_vertex_vec, minrank, maxrank)
process_contraction(recorded, a, k, fv, lo, hi) ==
  IF InBand(free_rank(fv), lo, hi) THEN Append(recorded, SubSeq(a, 1, k)) ELSE recorded

\* variant: only the creation legs are compared
compatible_creonly(el_contr, fv) ==
  \A A \in 1..Len(fv) : \A s \in Spaces : ~(fv[A][s].cre < el_contr[A][s].cre)

compatible(el_contr, fv) ==
  \A A \in 1..Len(fv) : \A s \in Spaces :
     /\ ~(fv[A][s].cre < el_contr[A][s].cre)
     /\ ~(fv[A][s].ann < el_contr[A][s].ann)

\* variant: the candidates do not start at the last index used
construct_candidates_frommin(a, k, el_contr_vec, fv) ==
  SelectSeq([c \in 1..Len(el_contr_vec) |-> c], LAMBDA c : compatible(el_contr_vec[c], fv))

\* k is the incremented depth; index 1 here is index 0 of the source
construct_candidates(a, k, el_contr_vec, fv) ==
  LET minc == IF k > 1 THEN a[k - 1] ELSE 1
      maxc == Len(el_contr_vec)
      keep(c) == c >= minc /\ compatible(el_contr_vec[c], fv)
  IN  SelectSeq([c \in 1..maxc |-> c], keep)

\* variant: only the creation legs are removed
make_move_creonly(a, k, el_contr_vec, fv) ==
  [A \in 1..Len(fv) |->
     [s \in Spaces |-> [cre |-> fv[A][s].cre - el_contr_vec[a[k]][A][s].cre,
                        ann |-> fv[A][s].ann]]]

make_move(a, k, el_contr_vec, fv) ==
  [A \in 1..Len(fv) |-> VertexSub(fv[A], el_contr_vec[a[k]][A])]

\* variant: only the creation legs are given back
unmake_move_creonly(a, k, el_contr_vec, fv) ==
  [A \in 1..Len(fv) |->
     [s \in Spaces |-> [cre |-> fv[A][s].cre + el_contr_vec[a[k]][A][s].cre,
                        ann |-> fv[A][s].ann]]]

unmake_move(a, k, el_contr_vec, fv) ==
  [A \in 1..Len(fv) |-> VertexAdd(fv[A], el_contr_vec[a[k]][A])]

\* the length of the scratch vector: std::vector<int> a(100, -1)
ScratchLen == 100

\* a[k - 1] = c on the scratch vector; a holds the entries written so far, the
\* entries after them are -1 in the source
WriteA(a, k, c) == IF k <= Len(a) THEN [a EXCEPT ![k] = c] ELSE Append(a, c)

Top == stack[Len(stack)]

Depth == Len(stack) - 1

(***************************************************************************)
(* Step 3a: canonicalize_contraction and contraction_signature.            *)
(***************************************************************************)
num_ops(op) == rank(op.vertex)

\* variant: the leg counts are not tested
HasOddOperator_never(oo) == FALSE

HasOddOperator(oo) == \E A \in 1..Len(oo) : num_ops(oo[A]) % 2 /= 0

\* conn_mat(i, j) for the list of elementary contractions of the composite
conn_mat(contractions, i, j) ==
  \E c \in 1..Len(contractions) :
     i /= j /\ rank(contractions[c][i]) > 0 /\ rank(contractions[c][j]) > 0

\* variant: the mask holds the operators to the right as well
left_masks_both(contractions, i) ==
  {j \in UNION {DOMAIN contractions[c] : c \in 1..Len(contractions)} :
     conn_mat(contractions, j, i)}

left_masks(contractions, i) == {j \in 1..(i - 1) : conn_mat(contractions, j, i)}

\* the permutations of 1..n that a do-while over std::next_permutation visits
PermTable ==
  [n \in 0..(MaxOps + 1) |-> {p \in [1..n -> 1..n] : \A i, j \in 1..n : p[i] = p[j] => i = j}]

AllPerms(n) ==
  IF n <= MaxOps + 1 THEN PermTable[n]
  ELSE {p \in [1..n -> 1..n] : \A i, j \in 1..n : p[i] = p[j] => i = j}

\* variant: every permutation of the operators is scored
allowed_always(contractions, ops_perm) == TRUE

\* the test of one ops_perm inside the do-while loop
allowed(contractions, ops_perm) ==
  \A i \in 1..Len(ops_perm) :
     LET i_mask == {ops_perm[j] : j \in 1..(i - 1)}
         lm == left_masks(contractions, ops_perm[i])
     IN  (i_mask \cap lm) = lm

permuted_contr(contraction, ops_perm) ==
  [j \in 1..Len(ops_perm) |-> contraction[ops_perm[j]]]

\* sort key of the pair (permuted_contr, i): std::pair over std::vector<DiagVertex> and int
ContrKey(contraction, ops_perm, i) ==
  Flatten([j \in 1..Len(ops_perm) |-> VertexKey(contraction[ops_perm[j]])]) \o <<i>>

\* variant: the contractions are left in the order given
sorted_contr_perm_unsorted(contractions, ops_perm) == [i \in 1..Len(contractions) |-> i]

\* contr_perm: the second components of the sorted pairs
sorted_contr_perm(contractions, ops_perm) ==
  LET keys == {ContrKey(contractions[i], ops_perm, i) : i \in 1..Len(contractions)}
      srt == SortLex(keys)
  IN  [i \in 1..Len(srt) |-> srt[i][Len(srt[i])]]

\* signature(DiagVertex): the decimal digits of the leg counts, space by space
signature(v) ==
  [i \in 1..(2 * NumSpaces) |->
     48 + (IF i % 2 = 1 THEN v[(i - 1) \div 2].cre ELSE v[(i - 1) \div 2].ann)]

contraction_signature(oo, contractions, ops_perm, contr_perm) ==
  LET nops == Len(oo)
      ncontr == Len(contractions)
  IN  Flatten([i \in 1..nops |-> oo[ops_perm[i]].label \o signature(oo[ops_perm[i]].vertex)])
      \o Flatten([i \in 1..ncontr |->
                    Flatten([j \in 1..nops |-> signature(contractions[contr_perm[i]][ops_perm[j]])])])

\* one element of scores for an allowed ops_perm
score_of(oo, contractions, ops_perm) ==
  LET cp == sorted_contr_perm(contractions, ops_perm)
  IN  [sig |-> contraction_signature(oo, contractions, ops_perm, cp),
       ops_perm |-> ops_perm, contr_perm |-> cp]

\* std::sort of scores: by signature, then by ops_perm (contr_perm follows from ops_perm)
ScoreLess(x, y) ==
  \/ LexLess(x.sig, y.sig)
  \/ (x.sig = y.sig /\ LexLess(x.ops_perm, y.ops_perm))

scores(oo, contractions) ==
  {score_of(oo, contractions, p) : p \in {q \in AllPerms(Len(oo)) : allowed(contractions, q)}}

\* canonicalize_contraction on the list of elementary contractions of a composite;
\* the odd-operator refusal is tested by the caller of this operator
canonicalize_contraction(oo, contractions) ==
  LET sc == scores(oo, contractions)
      best == CHOOSE x \in sc : \A y \in sc \ {x} : ScoreLess(x, y)
  IN  [sig |-> best.sig,
       best_ops_perm |-> best.ops_perm,
       best_contr_perm |-> best.contr_perm,
       best_ops |-> [i \in 1..Len(oo) |-> oo[best.ops_perm[i]]],
       best_contractions |-> [i \in 1..Len(contractions) |-> contractions[best.contr_perm[i]]]]

composite_contractions(el, contraction_vec) ==
  [i \in 1..Len(contraction_vec) |-> el[contraction_vec[i]]]

(***************************************************************************)
(* Step 3b: evaluate_contraction, up to the leftover operators.            *)
(***************************************************************************)
\* contraction_tensors_sqops: the second-quantized operators in layout order;
\* entry n of the result is the operator that op_map sends its key to
contraction_tensors_sqops(oo) ==
  LET cre_part(o) ==
        Flatten([i \in 1..NumSpaces |->
                   [c \in 1..op_cre(oo[o], i - 1) |->
                      [op |-> o, space |-> i - 1, cre |-> TRUE, n |-> c - 1]]])
      ann_part(o) ==
        Flatten([i \in 1..NumSpaces |->
                   LET s == NumSpaces - i
                       na == op_ann(oo[o], s)
                   IN  [a \in 1..na |-> [op |-> o, space |-> s, cre |-> FALSE, n |-> na - a]]])
  IN  Flatten([o \in 1..Len(oo) |-> cre_part(o) \o ann_part(o)])

\* op_map[key], or 0 when op_map.count(key) == 0
op_map(sqops, key) ==
  IF \E n \in 1..Len(sqops) : sqops[n] = key
  THEN CHOOSE n \in 1..Len(sqops) : sqops[n] = key
  ELSE 0

\* spaces_in_vertices(contraction)[0]: the first space with a leg
first_space(contraction) ==
  LET touched == {s \in Spaces : \E A \in 1..Len(contraction) :
                                   contraction[A][s].cre + contraction[A][s].ann > 0}
  IN  IF touched = {} THEN 0 ELSE CHOOSE s \in touched : \A t \in touched : s <= t

\* vertex_vec_to_pos: the positions found (0 = NOT FOUND) and the new ops_offset
vertex_vec_to_pos(vertex_vec, ops_offset, sqops, creation) ==
  LET s == first_space(vertex_vec)
      nlegs(v) == IF creation THEN vertex_vec[v][s].cre ELSE vertex_vec[v][s].ann
      ops_off(v) == IF creation THEN ops_offset[v][s].cre ELSE ops_offset[v][s].ann
      found(v) == [i \in 1..nlegs(v) |->
                     op_map(sqops, [op |-> v, space |-> s, cre |-> creation,
                                    n |-> ops_off(v) + i - 1])]
  IN  [pos |-> Flatten([v \in 1..Len(vertex_vec) |-> found(v)]),
       ops_offset |-> [v \in 1..Len(vertex_vec) |->
                         IF creation THEN set_cre(ops_offset[v], s, ops_off(v) + nlegs(v))
                         ELSE set_ann(ops_offset[v], s, ops_off(v) + nlegs(v))]]

\* variant: the counter restarts at 0 for every list of positions
assign_order_fromzero(sign_order, pos, sorted_position) ==
  [n \in 1..Len(sign_order) |->
     IF \E j \in 1..Len(pos) : pos[j] = n
     THEN LET j == CHOOSE j \in 1..Len(pos) :
                     pos[j] = n /\ \A l \in 1..Len(pos) : pos[l] = n => l <= j
          IN  j - 1
     ELSE sign_order[n]]

\* sign_order[p] = sorted_position++ for the positions of pos, in order
assign_order(sign_order, pos, sorted_position) ==
  [n \in 1..Len(sign_order) |->
     IF \E j \in 1..Len(pos) : pos[j] = n
     THEN LET j == CHOOSE j \in 1..Len(pos) :
                     pos[j] = n /\ \A l \in 1..Len(pos) : pos[l] = n => l <= j
          IN  sorted_position + j - 1
     ELSE sign_order[n]]

\* one pass of the loop over the elementary contractions
\* variant: no sign for an unoccupied pair
evaluate_step_noflip(contraction, sqops, st) ==
  LET s == first_space(contraction)
      cre_r == vertex_vec_to_pos(contraction, st.ops_offset, sqops, TRUE)
      ann_r == vertex_vec_to_pos(contraction, cre_r.ops_offset, sqops, FALSE)
      pos == cre_r.pos \o ann_r.pos
      missing == \E j \in 1..Len(pos) : pos[j] = 0
      flips == /\ space_type(s) = "General"
               /\ vertices_rank(contraction) = 2
               /\ ~(cre_r.pos[1] < ann_r.pos[1])
  IN  IF st.not_found \/ missing THEN [st EXCEPT !.not_found = TRUE]
      ELSE [ops_offset |-> ann_r.ops_offset,
            sign_order |-> assign_order(st.sign_order, pos, st.sorted_position),
            sorted_position |-> st.sorted_position + Len(pos),
            nsqops_contracted |-> st.nsqops_contracted + vertices_rank(contraction),
            unoccupied_sign |-> IF flips THEN -st.unoccupied_sign ELSE st.unoccupied_sign,
            not_found |-> FALSE]

\* variant: no sign for eta1
evaluate_step_noeta(contraction, sqops, st) ==
  LET s == first_space(contraction)
      cre_r == vertex_vec_to_pos(contraction, st.ops_offset, sqops, TRUE)
      ann_r == vertex_vec_to_pos(contraction, cre_r.ops_offset, sqops, FALSE)
      pos == cre_r.pos \o ann_r.pos
      missing == \E j \in 1..Len(pos) : pos[j] = 0
      flips == space_type(s) = "Unoccupied"
  IN  IF st.not_found \/ missing THEN [st EXCEPT !.not_found = TRUE]
      ELSE [ops_offset |-> ann_r.ops_offset,
            sign_order |-> assign_order(st.sign_order, pos, st.sorted_position),
            sorted_position |-> st.sorted_position + Len(pos),
            nsqops_contracted |-> st.nsqops_contracted + vertices_rank(contraction),
            unoccupied_sign |-> IF flips THEN -st.unoccupied_sign ELSE st.unoccupied_sign,
            not_found |-> FALSE]

evaluate_step(contraction, sqops, st) ==
  LET s == first_space(contraction)
      cre_r == vertex_vec_to_pos(contraction, st.ops_offset, sqops, TRUE)
      ann_r == vertex_vec_to_pos(contraction, cre_r.ops_offset, sqops, FALSE)
      pos == cre_r.pos \o ann_r.pos
      missing == \E j \in 1..Len(pos) : pos[j] = 0
      flips == \/ space_type(s) = "Unoccupied"
               \/ /\ space_type(s) = "General"
                  /\ vertices_rank(contraction) = 2
                  /\ ~(cre_r.pos[1] < ann_r.pos[1])
  IN  IF st.not_found \/ missing THEN [st EXCEPT !.not_found = TRUE]
      ELSE [ops_offset |-> ann_r.ops_offset,
            sign_order |-> assign_order(st.sign_order, pos, st.sorted_position),
            sorted_position |-> st.sorted_position + Len(pos),
            nsqops_contracted |-> st.nsqops_contracted + vertices_rank(contraction),
            unoccupied_sign |-> IF flips THEN -st.unoccupied_sign ELSE st.unoccupied_sign,
            not_found |-> FALSE]

RECURSIVE evaluate_loop(_, _, _)
evaluate_loop(contractions, sqops, st) ==
  IF contractions = <<>> THEN st
  ELSE evaluate_loop(Tail(contractions), sqops, evaluate_step(Head(contractions), sqops, st))

\* variant: the uncontracted annihilations come first
uncontracted_positions_annfirst(sqops, sign_order) ==
  LET idx == [i \in 1..Len(sqops) |-> i]
      part(cre, s) == SelectSeq(idx, LAMBDA i : sign_order[i] = -1 /\ sqops[i].space = s
                                                /\ sqops[i].cre = cre)
  IN  Flatten([t \in 1..2 |-> Flatten([i \in 1..NumSpaces |-> part(t = 2, i - 1)])])

\* the positions still at -1, creations first, by space, by position
uncontracted_positions(sqops, sign_order) ==
  LET idx == [i \in 1..Len(sqops) |-> i]
      part(cre, s) == SelectSeq(idx, LAMBDA i : sign_order[i] = -1 /\ sqops[i].space = s
                                                /\ sqops[i].cre = cre)
  IN  Flatten([t \in 1..2 |-> Flatten([i \in 1..NumSpaces |-> part(t = 1, i - 1)])])

\* the sqops sorted by sign_order, without the first nsqops_contracted
leftover_sqops(sqops, sign_order, nsqops_contracted) ==
  LET srt == SortLex({<<sign_order[i], i>> : i \in 1..Len(sqops)})
  IN  [i \in 1..(Len(srt) - nsqops_contracted) |-> sqops[srt[i + nsqops_contracted][2]]]

\* the Tensor of every operator: its label, the indices of its creators (lower) and
\* of its annihilators (upper, reversed); an index is <<space, number>> with the
\* numbers of a space given in the order of the sqops
contraction_tensors(oo) ==
  CHOOSE tensors \in
    {[o \in 1..Len(oo) |->
        LET index(i) == <<sqops[i].space,
                          Cardinality({j \in 1..(i - 1) : sqops[j].space = sqops[i].space})>>
            at(cre) == SelectSeq([i \in 1..Len(sqops) |-> i],
                                 LAMBDA i : sqops[i].op = o /\ sqops[i].cre = cre)
            lower == [j \in 1..Len(at(TRUE)) |-> index(at(TRUE)[j])]
            upper == [j \in 1..Len(at(FALSE)) |-> index(at(FALSE)[Len(at(FALSE)) + 1 - j])]
        IN  [label |-> oo[o].label, lower |-> lower, upper |-> upper]] :
     sqops \in {contraction_tensors_sqops(oo)}} : TRUE

\* variant: the free legs are not decremented
RECURSIVE combinatorial_from_nodecrement(_, _, _)
combinatorial_from_nodecrement(free_vertices, contractions, c) ==
  IF c > Len(contractions) THEN 1
  ELSE LET contraction == contractions[c]
           here == ProdSeq([v \in 1..Len(contraction) |->
                     ProdSeq([i \in 1..NumSpaces |->
                        binomial(free_vertices[v][i - 1].cre, contraction[v][i - 1].cre)
                        * binomial(free_vertices[v][i - 1].ann, contraction[v][i - 1].ann)])])
       IN  here * combinatorial_from_nodecrement(free_vertices, contractions, c + 1)

RECURSIVE combinatorial_from(_, _, _)
combinatorial_from(free_vertices, contractions, c) ==
  IF c > Len(contractions) THEN 1
  ELSE LET contraction == contractions[c]
           here == ProdSeq([v \in 1..Len(contraction) |->
                     ProdSeq([i \in 1..NumSpaces |->
                        binomial(free_vertices[v][i - 1].cre, contraction[v][i - 1].cre)
                        * binomial(free_vertices[v][i - 1].ann, contraction[v][i - 1].ann)])])
           next == [v \in 1..Len(free_vertices) |-> VertexSub(free_vertices[v], contraction[v])]
       IN  here * combinatorial_from(next, contractions, c + 1)

\* variant: no division by the multiplicities
combinatorial_factor_nomult(oo, contractions) ==
  scalar_t(combinatorial_from([A \in 1..Len(oo) |-> oo[A].vertex], contractions, 1), 1)

\* variant: a repeated contraction is counted only next to its copy
combinatorial_factor_runs(oo, contractions) ==
  LET n == Len(contractions)
  IN  scalar_t(combinatorial_from([A \in 1..Len(oo) |-> oo[A].vertex], contractions, 1),
               ProdSeq([i \in 1..n |->
                          IF i > 1 /\ contractions[i - 1] = contractions[i] THEN 2 ELSE 1]))

combinatorial_factor(oo, contractions) ==
  LET n == Len(contractions)
      contraction_count ==
        [i \in 1..n |->
           IF \A j \in 1..(i - 1) : contractions[j] /= contractions[i]
           THEN Cardinality({j \in 1..n : contractions[j] = contractions[i]})
           ELSE 1]
  IN  scalar_t(combinatorial_from([A \in 1..Len(oo) |-> oo[A].vertex], contractions, 1),
               ProdSeq([i \in 1..n |-> binomial(contraction_count[i], 1)]))

evaluate_contraction(oo, contractions, factor) ==
  LET sqops == contraction_tensors_sqops(oo)
      st0 == [ops_offset |-> ZeroVertices(Len(oo)),
              sign_order |-> [i \in 1..Len(sqops) |-> -1],
              sorted_position |-> 0,
              nsqops_contracted |-> 0,
              unoccupied_sign |-> 1,
              not_found |-> FALSE]
      st == evaluate_loop(contractions, sqops, st0)
      unc == uncontracted_positions(sqops, st.sign_order)
      sign_order == assign_order(st.sign_order, unc, st.sorted_position)
      \* factor *= op.factor() for every operator
      ops_factor == RMul(factor, scalar_t(ProdSeq([A \in 1..Len(oo) |-> oo[A].factor[1]]),
                                          ProdSeq([A \in 1..Len(oo) |-> oo[A].factor[2]])))
  IN  IF st.not_found THEN [not_found |-> TRUE]
      ELSE CHOOSE term_factor \in
             {[not_found |-> FALSE,
               contractions |-> contractions,
               tensors |-> contraction_tensors(oo),
               sign |-> x.sign,
               comb_factor |-> x.comb_factor,
               factor |-> RMul(RMul(scalar_t(x.sign, 1), x.factor), x.comb_factor),
               sign_order |-> x.sign_order,
               nsqops_contracted |-> st.nsqops_contracted,
               unoccupied_sign |-> st.unoccupied_sign,
               sqops |-> leftover_sqops(sqops, x.sign_order, st.nsqops_contracted)] :
              x \in {[sign |-> st.unoccupied_sign * permutation_sign(so),
                       sign_order |-> so,
                       factor |-> ops_factor,
                       comb_factor |-> combinatorial_factor(oo, contractions)] :
                      so \in {sign_order}}} : TRUE

(***************************************************************************)
(* The state machine.                                                      *)
(***************************************************************************)
\* the (minrank, maxrank) given to contract: scalars only, everything up to
\* MaxBand, and rank MaxBand only
Bands == {<<0, 0>>, <<0, MaxBand>>, <<MaxBand, MaxBand>>}

\* the calls of contract (factor, operators, band): every string with factor 1 in
\* every band, the products with factor 1/2 for scalars, the calls of
\* tests/ccsd for rank 2, and a product of three-body operators for scalars
Calls ==
  {<<One, oo, b>> : oo \in OpStrings, b \in Bands}
    \cup {<<scalar_t(1, 2), oo, <<0, 0>>>> : oo \in OpProducts}
    \cup {<<One, oo, <<2, 2>>>> : oo \in {<<OpFvo>>, <<OpFvv, OpT1>>, <<OpFoo, OpT1>>}}
    \cup {<<One, <<OpW3, OpT3>>, <<0, 0>>>>}

DefaultMaxCumulant == 2

Init ==
  /\ maxcumulant_ = DefaultMaxCumulant
  /\ pc = "idle"
  /\ last = "new"
  /\ ops = <<>>
  /\ minrank = 0
  /\ maxrank = 0
  /\ elementary_contractions_ = <<>>
  /\ contractions_ = <<>>
  /\ ncontractions_ = 0
  /\ free_vertex_vec = <<>>
  /\ stack = <<>>
  /\ nproc = 0
  /\ canon = <<>>
  /\ result = <<>>
  /\ contract_factor = One
  /\ sums = [t \in 1..2 |-> <<>>]
  /\ nsum = 0
  /\ lift_in = <<>>
  /\ lift_todo = <<>>
  /\ lift_result = <<>>
  /\ lift_pc = "idle"

\* WickTheorem::set_max_cumulant
SetMaxCumulant(n) ==
  /\ pc = "idle"
  /\ last \notin {"exited", "crashed"}
  /\ maxcumulant_' = n
  /\ UNCHANGED <<pc, last, ops, minrank, maxrank, elementary_contractions_, contractions_,
                 ncontractions_, free_vertex_vec, stack, nproc, canon, result>>
  /\ UNCHANGED <<contract_factor, sum_vars, lift_vars>>

\* WickTheorem::contract, the three statements before Step 1; the arguments,
\* locals and result of the call before are gone
\* variant: the lists of the previous call are kept
ContractClear_keep ==
  /\ pc = "idle"
  /\ last \notin {"exited", "crashed"}
  /\ ops' = <<>>
  /\ minrank' = 0
  /\ maxrank' = 0
  /\ free_vertex_vec' = <<>>
  /\ nproc' = 0
  /\ canon' = <<>>
  /\ result' = <<>>
  /\ contract_factor' = One
  /\ pc' = "cleared"
  /\ last' = "running"
  /\ UNCHANGED <<maxcumulant_, stack, ncontractions_, contractions_, elementary_contractions_>>
  /\ UNCHANGED <<sum_vars, lift_vars>>

ContractClear ==
  /\ pc = "idle"
  /\ last \notin {"exited", "crashed"}
  /\ ncontractions_' = 0
  /\ contractions_' = <<>>
  /\ elementary_contractions_' = <<>>
  /\ ops' = <<>>
  /\ minrank' = 0
  /\ maxrank' = 0
  /\ free_vertex_vec' = <<>>
  /\ nproc' = 0
  /\ canon' = <<>>
  /\ result' = <<>>
  /\ contract_factor' = One
  /\ pc' = "cleared"
  /\ last' = "running"
  /\ UNCHANGED <<maxcumulant_, stack>>
  /\ UNCHANGED <<sum_vars, lift_vars>>

\* WickTheorem::contract, Step 1 and Step 2 up to the first call of
\* generate_contractions_backtrack, for the arguments (oo, lo, hi) of the call
ContractGenerate(factor, oo, lo, hi) ==
  /\ pc = "cleared"
  /\ contract_factor' = factor
  /\ ops' = oo
  /\ minrank' = lo
  /\ maxrank' = hi
  /\ elementary_contractions_' = generate_elementary_contractions(oo, maxcumulant_)
  /\ free_vertex_vec' = [A \in 1..Len(oo) |-> oo[A].vertex]
  /\ stack' = <<[st |-> "enter", a |-> <<>>, k |-> 0, candidates |-> <<>>, i |-> 0]>>
  /\ pc' = "backtrack"
  /\ UNCHANGED <<maxcumulant_, last, contractions_, ncontractions_, nproc, canon, result>>
  /\ UNCHANGED <<sum_vars, lift_vars>>

\* generate_contractions_backtrack: process_contraction, k = k + 1, construct_candidates
Enter ==
  /\ pc = "backtrack"
  /\ Top.st = "enter"
  /\ LET rec == process_contraction(contractions_, Top.a, Top.k, free_vertex_vec,
                                    minrank, maxrank)
         k == Top.k + 1
     IN  /\ contractions_' = rec
         /\ ncontractions_' = ncontractions_ + (Len(rec) - Len(contractions_))
         /\ stack' = [stack EXCEPT ![Len(stack)] =
                        [st |-> "loop", a |-> Top.a, k |-> k,
                         candidates |-> construct_candidates(Top.a, k,
                                           elementary_contractions_, free_vertex_vec),
                         i |-> 1]]
  /\ UNCHANGED <<maxcumulant_, pc, last, ops, minrank, maxrank, elementary_contractions_,
                 free_vertex_vec, nproc, canon, result>>
  /\ UNCHANGED <<contract_factor, sum_vars, lift_vars>>

\* the loop body up to the recursive call: a[k - 1] = c, make_move, call
MakeMove ==
  /\ pc = "backtrack"
  /\ Top.st = "loop"
  /\ Top.i <= Len(Top.candidates)
  /\ LET a == WriteA(Top.a, Top.k, Top.candidates[Top.i])
     IN  /\ free_vertex_vec' = make_move(a, Top.k, elementary_contractions_, free_vertex_vec)
         /\ stack' = Append([stack EXCEPT ![Len(stack)].a = a],
                            [st |-> "enter", a |-> a, k |-> Top.k,
                             candidates |-> <<>>, i |-> 0])
  /\ UNCHANGED <<maxcumulant_, pc, last, ops, minrank, maxrank, elementary_contractions_,
                 contractions_, ncontractions_, nproc, canon, result>>
  /\ UNCHANGED <<contract_factor, sum_vars, lift_vars>>

\* the recursive call returns: unmake_move and the next candidate
UnmakeMove ==
  /\ pc = "backtrack"
  /\ Top.st = "loop"
  /\ Top.i > Len(Top.candidates)
  /\ Len(stack) > 1
  /\ LET caller == stack[Len(stack) - 1]
     IN  /\ free_vertex_vec' = unmake_move(caller.a, caller.k, elementary_contractions_,
                                           free_vertex_vec)
         /\ stack' = [SubSeq(stack, 1, Len(stack) - 1) EXCEPT ![Len(stack) - 1].i = caller.i + 1]
  /\ UNCHANGED <<maxcumulant_, pc, last, ops, minrank, maxrank, elementary_contractions_,
                 contractions_, ncontractions_, nproc, canon, result>>
  /\ UNCHANGED <<contract_factor, sum_vars, lift_vars>>

\* the outermost call returns to generate_composite_contractions, Step 3 starts
BacktrackReturn ==
  /\ pc = "backtrack"
  /\ Top.st = "loop"
  /\ Top.i > Len(Top.candidates)
  /\ Len(stack) = 1
  /\ stack' = <<>>
  /\ pc' = "process"
  /\ UNCHANGED <<maxcumulant_, last, ops, minrank, maxrank, elementary_contractions_,
                 contractions_, ncontractions_, free_vertex_vec, nproc, canon, result>>
  /\ UNCHANGED <<contract_factor, sum_vars, lift_vars>>

\* term_rank of process_contractions
term_rank(oo, el, contraction_vec) ==
  operators_rank(oo)
    - SumSeq([i \in 1..Len(contraction_vec) |-> vertices_rank(el[contraction_vec[i]])])

\* one pass of the loop of process_contractions over contractions_
ProcessContraction ==
  /\ pc = "process"
  /\ nproc < Len(contractions_)
  /\ LET contraction_vec == contractions_[nproc + 1]
         tr == term_rank(ops, elementary_contractions_, contraction_vec)
         contractions == composite_contractions(elementary_contractions_, contraction_vec)
     IN  IF ~InBand(tr, minrank, maxrank)
         THEN /\ nproc' = nproc + 1
              /\ UNCHANGED <<pc, last, canon, result>>
         ELSE IF HasOddOperator(ops)
         THEN \* canonicalize_contraction throws, the Expression is lost
              /\ pc' = "idle"
              /\ last' = "threw"
              /\ nproc' = 0
              /\ result' = <<>>
              /\ UNCHANGED canon
         ELSE LET cn == canonicalize_contraction(ops, contractions)
                  tf == evaluate_contraction(ops, cn.best_contractions, contract_factor)
              IN  /\ canon' = [contraction_vec |-> contraction_vec, out |-> cn]
                  /\ IF tf.not_found
                     THEN \* vertex_vec_to_pos exits
                          /\ pc' = "idle"
                          /\ last' = "exited"
                          /\ nproc' = 0
                          /\ result' = <<>>
                     ELSE /\ result' = Append(result, [contraction_vec |-> contraction_vec,
                                                       term_rank |-> tr, term |-> tf])
                          /\ nproc' = nproc + 1
                          /\ UNCHANGED <<pc, last>>
  /\ UNCHANGED <<maxcumulant_, ops, minrank, maxrank, elementary_contractions_,
                 contractions_, ncontractions_, free_vertex_vec, stack, contract_factor>>
  /\ UNCHANGED <<sum_vars, lift_vars>>

\* process_contractions and contract return the Expression; the locals of the call end
ProcessReturn ==
  /\ pc = "process"
  /\ nproc = Len(contractions_)
  /\ pc' = "idle"
  /\ last' = "returned"
  /\ nproc' = 0
  /\ canon' = <<>>
  /\ free_vertex_vec' = <<>>
  /\ UNCHANGED <<maxcumulant_, ops, minrank, maxrank, elementary_contractions_,
                 contractions_, ncontractions_, stack, result>>
  /\ UNCHANGED <<contract_factor, sum_vars, lift_vars>>

Next ==
  \/ \E n \in 1..MaxK : SetMaxCumulant(n)
  \/ ContractClear
  \/ \E call \in Calls : ContractGenerate(call[1], call[2], call[3][1], call[3][2])
  \/ Enter
  \/ MakeMove
  \/ UnmakeMove
  \/ BacktrackReturn
  \/ ProcessContraction
  \/ ProcessReturn

Spec == Init /\ [][Next]_vars

\* the backtracking generator always takes its next step
FairSpec == Spec /\ WF_vars(Enter \/ MakeMove \/ UnmakeMove \/ BacktrackReturn)

(***************************************************************************)
(* Properties of the composite generator.                                  *)
(***************************************************************************)
\* the elementary contractions applied to free_vertex_vec: the stack a[0..k)
Applied == SubSeq(Top.a, 1, Depth)

\* legs of kind cre / ann that a list of elementary indices takes from position A in space s
LegsTaken(el, q, A, s, cre) ==
  SumSeq([i \in 1..Len(q) |-> IF cre THEN el[q[i]][A][s].cre ELSE el[q[i]][A][s].ann])

Fits(el, q, oo) ==
  \A A \in 1..Len(oo) : \A s \in Spaces :
     /\ LegsTaken(el, q, A, s, TRUE) <= oo[A].vertex[s].cre
     /\ LegsTaken(el, q, A, s, FALSE) <= oo[A].vertex[s].ann

\* C1: while the generator runs, free legs plus the legs taken by the stack a[0..k)
\* equal the operator's legs for every position, space and kind, no free count is
\* negative, and every composite fits inside the operator vertices when it is recorded
\* (each one is the last of the list in the state that follows its recording).
C1_LegConservation ==
  /\ pc = "backtrack" =>
       \A A \in 1..Len(ops) : \A s \in Spaces :
          /\ free_vertex_vec[A][s].cre
               + LegsTaken(elementary_contractions_, Applied, A, s, TRUE)
             = ops[A].vertex[s].cre
          /\ free_vertex_vec[A][s].ann
               + LegsTaken(elementary_contractions_, Applied, A, s, FALSE)
             = ops[A].vertex[s].ann
          /\ free_vertex_vec[A][s].cre >= 0
          /\ free_vertex_vec[A][s].ann >= 0
  /\ (pc = "backtrack" /\ Len(contractions_) > 0) =>
       Fits(elementary_contractions_, contractions_[Len(contractions_)], ops)

\* a descent of two levels, after a move was unmade, with a composite recorded
C1_Witness ==
  /\ pc = "backtrack"
  /\ Depth >= 2
  /\ Top.st = "loop"
  /\ stack[Len(stack) - 1].i > 1
  /\ Len(contractions_) > 0

\* the non-decreasing index sequences of length <= n that fit, built by extension
RECURSIVE FittingSeqs(_, _, _)
FittingSeqs(el, oo, n) ==
  IF n = 0 THEN {<<>>}
  ELSE LET shorter == FittingSeqs(el, oo, n - 1)
       IN  shorter \cup
           {q \in {Append(p, c) : p \in {x \in shorter : Len(x) = n - 1}, c \in 1..Len(el)} :
              /\ (Len(q) > 1 => q[Len(q) - 1] <= q[Len(q)])
              /\ Fits(el, q, oo)}

LeftoverRank(el, q, oo) ==
  operators_rank(oo) - SumSeq([i \in 1..Len(q) |-> vertices_rank(el[q[i]])])

\* the generator has returned and Step 3 has not looked at the list yet
Generated == pc = "process" /\ nproc = 0

\* C2: the list the generator returns holds exactly the non-decreasing index
\* sequences that fit inside the operator vertices and leave a rank in the band,
\* each once, and no two recorded composites are equal as multisets.
C2_CompleteUnique ==
  Generated =>
    LET el == elementary_contractions_
        expected == {q \in FittingSeqs(el, ops, operators_rank(ops) \div 2 + 1) :
                       InBand(LeftoverRank(el, q, ops), minrank, maxrank)}
    IN  /\ {contractions_[n] : n \in 1..Len(contractions_)} = expected
        /\ Cardinality(expected) = Len(contractions_)
        /\ \A m, n \in 1..Len(contractions_) :
              SortInts(contractions_[m]) = SortInts(contractions_[n]) => m = n

\* a list with a composite that repeats an index and one that uses two indices
C2_Witness ==
  /\ Generated
  /\ \E n \in 1..Len(contractions_) :
        Len(contractions_[n]) = 2 /\ contractions_[n][1] = contractions_[n][2]
  /\ \E n \in 1..Len(contractions_) :
        Len(contractions_[n]) = 2 /\ contractions_[n][1] < contractions_[n][2]

\* C3: every term added to the Expression has as many leftover operators as the
\* total operator rank minus the rank of its contractions, and that number is in
\* the band; no composite outside the band is evaluated.
C3_RankBand ==
  \A n \in 1..Len(result) :
     LET r == Len(result[n].term.sqops)
     IN  /\ r = operators_rank(ops)
                 - SumSeq([i \in 1..Len(result[n].contraction_vec) |->
                             vertices_rank(elementary_contractions_[result[n].contraction_vec[i]])])
         /\ minrank <= r
         /\ r <= maxrank

\* terms with two and with no leftover operators, from contracted and empty composites
C3_Witness ==
  /\ \E n \in 1..Len(result) :
        Len(result[n].term.sqops) = 2 /\ Len(result[n].contraction_vec) > 0
  /\ \E n \in 1..Len(result) :
        Len(result[n].term.sqops) = 0 /\ Len(result[n].contraction_vec) > 1
  /\ minrank < maxrank

\* C4: the generator returns; every descent lowers the rank of the free legs by at
\* least 2, and the depth never exceeds half the total operator rank.
C4_Termination ==
  /\ [](pc = "backtrack" => 2 * Depth <= operators_rank(ops))
  /\ [][(pc = "backtrack" /\ Len(stack') > Len(stack))
          => free_rank(free_vertex_vec') <= free_rank(free_vertex_vec) - 2]_vars
  /\ ((pc = "backtrack") ~> (pc = "process"))

\* the deepest descent the rank allows, in a string of rank 8
C4_Witness ==
  /\ pc = "backtrack"
  /\ operators_rank(ops) = 8
  /\ Depth = 4

(***************************************************************************)
(* Properties of the elementary contractions.                              *)
(***************************************************************************)
Touches(contraction, A) == \E s \in Spaces : contraction[A][s].cre + contraction[A][s].ann > 0

InSpace(contraction, s) ==
  \E A \in 1..Len(contraction) : contraction[A][s].cre + contraction[A][s].ann > 0

\* the vertex vector with cre legs cl[A] and ann legs al[A] in space s and nothing else
LegsVector(s, cl, al) ==
  [A \in 1..Len(cl) |->
     [t \in Spaces |-> [cre |-> IF t = s THEN cl[A] ELSE 0,
                        ann |-> IF t = s THEN al[A] ELSE 0]]]

Unit(n, i) == [A \in 1..n |-> IF A = i THEN 1 ELSE 0]

CreAnnPairs(oo, s) ==
  {p \in (1..Len(oo)) \X (1..Len(oo)) :
     p[1] < p[2] /\ oo[p[1]].vertex[s].cre >= 1 /\ oo[p[2]].vertex[s].ann >= 1}

AnnCrePairs(oo, s) ==
  {p \in (1..Len(oo)) \X (1..Len(oo)) :
     p[1] < p[2] /\ oo[p[1]].vertex[s].ann >= 1 /\ oo[p[2]].vertex[s].cre >= 1}

\* Step 1 has run and the first call of the generator is about to start
Emitted == pc = "backtrack" /\ Len(stack) = 1 /\ Top.st = "enter"

\* C5: when Step 1 returns, for an Occupied space the contractions are, in
\* lexicographic (i, j) order, one per pair i < j with a creation leg at i and an
\* annihilation leg at j; for an
\* Unoccupied space one per pair i < j with an annihilation leg at i and a creation
\* leg at j; nothing else is emitted there and spaces come in ascending order.
C5_PairSpaces ==
  Emitted =>
    LET el == elementary_contractions_
        n == Len(ops)
        in_s(s) == SelectSeq(el, LAMBDA c : InSpace(c, s))
        occ(s) == SortLex(CreAnnPairs(ops, s))
        uno(s) == SortLex(AnnCrePairs(ops, s))
    IN  /\ \A s \in Spaces : space_type(s) = "Occupied" =>
              in_s(s) = [m \in 1..Len(occ(s)) |->
                           LegsVector(s, Unit(n, occ(s)[m][1]), Unit(n, occ(s)[m][2]))]
        /\ \A s \in Spaces : space_type(s) = "Unoccupied" =>
              in_s(s) = [m \in 1..Len(uno(s)) |->
                           LegsVector(s, Unit(n, uno(s)[m][2]), Unit(n, uno(s)[m][1]))]
        /\ \A l, m \in 1..Len(el) : \A s, t \in Spaces :
              (l < m /\ InSpace(el[l], s) /\ InSpace(el[m], t)) => s <= t

\* both pair spaces have two contractions, and one operator cannot be contracted
C5_Witness ==
  /\ Emitted
  /\ Len(ops) = 3
  /\ Cardinality(CreAnnPairs(ops, 0)) = 2
  /\ Cardinality(AnnCrePairs(ops, 1)) = 2
  /\ Len(elementary_contractions_) = 4

\* the admissible (cre_legs, ann_legs) pairs of a General space
CumulantPairs(oo, s, K) ==
  LET n == Len(oo)
      sumcre == SumSeq([A \in 1..n |-> oo[A].vertex[s].cre])
      sumann == SumSeq([A \in 1..n |-> oo[A].vertex[s].ann])
      kmax == Min2(Min2(sumcre, sumann), K)
      CL == {cl \in [1..n -> 0..sumcre] : \A A \in 1..n : cl[A] <= oo[A].vertex[s].cre}
      AL == {al \in [1..n -> 0..sumann] : \A A \in 1..n : al[A] <= oo[A].vertex[s].ann}
  IN  {p \in CL \X AL :
         /\ SumSeq(p[1]) = SumSeq(p[2])
         /\ SumSeq(p[1]) >= 1
         /\ SumSeq(p[1]) <= kmax
         /\ Cardinality({A \in 1..n : p[1][A] + p[2][A] > 0}) >= 2}

\* C6: when Step 1 returns, for a General space the contractions are exactly the vectors of the
\* admissible (cre_legs, ann_legs) pairs: equal sums k in 1..min(sum cre, sum ann, K),
\* within the capacity of every position, on at least two positions; each once.
C6_GeneralSpace ==
  Emitted =>
    \A s \in Spaces : space_type(s) = "General" =>
       LET in_s == SelectSeq(elementary_contractions_, LAMBDA c : InSpace(c, s))
           expected == {LegsVector(s, p[1], p[2]) : p \in CumulantPairs(ops, s, maxcumulant_)}
       IN  /\ {in_s[m] : m \in 1..Len(in_s)} = expected
           /\ Len(in_s) = Cardinality(expected)

\* three operators of a General space with unequal capacities, k = 1 and k = 2 present
C6_Witness ==
  /\ Emitted
  /\ Len(ops) = 3
  /\ \E A, B \in 1..3 : ops[A].vertex[2].cre = 2 /\ ops[B].vertex[2].cre = 1
                        /\ ops[B].vertex[2].ann = 0
  /\ \E m \in 1..Len(elementary_contractions_) :
        vertices_rank(elementary_contractions_[m]) = 4
  /\ \E m \in 1..Len(elementary_contractions_) :
        /\ vertices_rank(elementary_contractions_[m]) = 2
        /\ InSpace(elementary_contractions_[m], 2)

\* C7: every elementary contraction has legs on at least two operator positions.
C7_NoSelfContraction ==
  \A m \in 1..Len(elementary_contractions_) :
     Cardinality({A \in 1..Len(elementary_contractions_[m]) :
                    Touches(elementary_contractions_[m], A)}) >= 2

\* cumulants were emitted for operators that have creation and annihilation legs
\* of their own in the General space
C7_Witness ==
  /\ pc = "backtrack"
  /\ Len(ops) = 3
  /\ \A A \in 1..Len(ops) : ops[A].vertex[2].cre >= 1 /\ ops[A].vertex[2].ann >= 1
  /\ \E m \in 1..Len(elementary_contractions_) :
        vertices_rank(elementary_contractions_[m]) = 4

\* C8: during a call every contraction of a General space has k creation and k
\* annihilation legs with 1 <= k <= the value last given to set_max_cumulant, and
\* set_max_cumulant itself leaves the contractions of the call before untouched.
C8_CumulantBound ==
  /\ [](pc \in {"backtrack", "process"} =>
          \A m \in 1..Len(elementary_contractions_) : \A s \in Spaces :
             (space_type(s) = "General" /\ InSpace(elementary_contractions_[m], s)) =>
                LET c == elementary_contractions_[m]
                    kc == SumSeq([A \in 1..Len(c) |-> c[A][s].cre])
                    ka == SumSeq([A \in 1..Len(c) |-> c[A][s].ann])
                IN  kc = ka /\ 1 <= kc /\ kc <= maxcumulant_)
  /\ [][maxcumulant_' /= maxcumulant_ =>
          (pc = "idle" /\ elementary_contractions_' = elementary_contractions_)]_vars

\* K was lowered to 1 and the operators would admit a cumulant with k = 2
C8_Witness ==
  /\ pc = "backtrack"
  /\ maxcumulant_ = 1
  /\ SumSeq([A \in 1..Len(ops) |-> ops[A].vertex[2].cre]) >= 2
  /\ SumSeq([A \in 1..Len(ops) |-> ops[A].vertex[2].ann]) >= 2
  /\ \E m \in 1..Len(elementary_contractions_) : InSpace(elementary_contractions_[m], 2)

(***************************************************************************)
(* Properties of the canonicalization.                                     *)
(***************************************************************************)
Connected(contractions, i, j) ==
  /\ i /= j
  /\ \E c \in 1..Len(contractions) : Touches(contractions[c], i) /\ Touches(contractions[c], j)

\* p[i] is the operator placed at position i; no operator passes to the left of an
\* operator it is connected to and that stood before it
Legal(contractions, p) ==
  \A i, j \in 1..Len(p) :
     (p[i] < p[j] /\ Connected(contractions, p[i], p[j])) => i < j

RelabelOps(oo, p) == [i \in 1..Len(p) |-> oo[p[i]]]

RelabelContractions(contractions, p, q) ==
  [m \in 1..Len(q) |-> [i \in 1..Len(p) |-> contractions[q[m]][p[i]]]]

CanonInput == composite_contractions(elementary_contractions_, canon.contraction_vec)

\* C9: the minimum signature selected for a composite is also the one selected for
\* every input obtained from it by a legal permutation of the operators together
\* with any reordering of the elementary contractions.
C9_CanonicalUniqueness ==
  canon /= <<>> =>
    \A p \in AllPerms(Len(ops)) : Legal(CanonInput, p) =>
       \A q \in AllPerms(Len(CanonInput)) :
          canonicalize_contraction(RelabelOps(ops, p),
                                   RelabelContractions(CanonInput, p, q)).sig
            = canon.out.sig

\* a composite of two different contractions that leaves a legal permutation other
\* than the identity
C9_Witness ==
  /\ canon /= <<>>
  /\ Len(canon.contraction_vec) >= 2
  /\ canon.contraction_vec[1] /= canon.contraction_vec[2]
  /\ \E p \in AllPerms(Len(ops)) : p /= [i \in 1..Len(ops) |-> i] /\ Legal(CanonInput, p)
  /\ \E p \in AllPerms(Len(ops)) : ~Legal(CanonInput, p)

\* lexicographic order of two vectors of vertices
VecLess(u, v) ==
  \E j \in 1..Len(u) : (\A l \in 1..(j - 1) : u[l] = v[l]) /\ VertexLess(u[j], v[j])

\* the ascending stable sort of the contractions as seen under p
StableOrder(contractions, p) ==
  CHOOSE q \in AllPerms(Len(contractions)) :
    \A a, b \in 1..Len(contractions) : a < b =>
       LET ua == permuted_contr(contractions[q[a]], p)
           ub == permuted_contr(contractions[q[b]], p)
       IN  VecLess(ua, ub) \/ (ua = ub /\ q[a] < q[b])

SignatureUnder(contractions, p) ==
  contraction_signature(ops, contractions, p, StableOrder(contractions, p))

\* C10: the permutation returned is allowed, no allowed permutation has a smaller
\* signature, the contraction order is the stable ascending sort under that
\* permutation, and the operators and contractions are returned in these orders.
C10_CanonicalRepresentative ==
  canon /= <<>> =>
    LET out == canon.out
    IN  /\ out.best_ops_perm \in AllPerms(Len(ops))
        /\ Legal(CanonInput, out.best_ops_perm)
        /\ out.best_contr_perm = StableOrder(CanonInput, out.best_ops_perm)
        /\ out.sig = SignatureUnder(CanonInput, out.best_ops_perm)
        /\ \A p \in AllPerms(Len(ops)) :
              Legal(CanonInput, p) => ~LexLess(SignatureUnder(CanonInput, p), out.sig)
        /\ out.best_ops = RelabelOps(ops, out.best_ops_perm)
        /\ out.best_contractions
             = [m \in 1..Len(CanonInput) |-> CanonInput[out.best_contr_perm[m]]]

\* the representative moves an operator, reorders the contractions, and a permutation
\* with a smaller signature was excluded
C10_Witness ==
  /\ canon /= <<>>
  /\ canon.out.best_ops_perm /= [i \in 1..Len(ops) |-> i]
  /\ canon.out.best_contr_perm /= [m \in 1..Len(CanonInput) |-> m]
  /\ \E p \in AllPerms(Len(ops)) :
        /\ ~Legal(CanonInput, p)
        /\ LexLess(SignatureUnder(CanonInput, p), canon.out.sig)

(***************************************************************************)
(* Properties of the error paths.                                          *)
(***************************************************************************)
\* some operator of the string has an odd number of legs
OddLegs(oo) ==
  \E A \in 1..Len(oo) :
     SumSeq([i \in 1..NumSpaces |-> oo[A].vertex[i - 1].cre + oo[A].vertex[i - 1].ann]) % 2 = 1

\* Step 3 is about to hand a composite of the band to canonicalize_contraction
Canonicalizing ==
  /\ pc = "process"
  /\ nproc < Len(contractions_)
  /\ InBand(LeftoverRank(elementary_contractions_, contractions_[nproc + 1], ops),
            minrank, maxrank)

\* C11: when canonicalize_contraction is called for a string with an operator of odd
\* leg count the call ends in the error, for every composite, no canonical pair is
\* returned and no term is added; when every operator has an even leg count the
\* error is never raised and the call returns a pair for the composite.
C11_OddRefusal ==
  /\ [](last = "threw" => OddLegs(ops))
  /\ [][Canonicalizing =>
          IF OddLegs(ops)
          THEN pc' = "idle" /\ last' = "threw" /\ canon' = <<>> /\ result' = <<>>
          ELSE /\ last' /= "threw"
               /\ canon' /= <<>>
               /\ canon'.contraction_vec = contractions_[nproc + 1]]_vars

\* the error was raised for a string of an even and an odd operator, on a composite
\* that is not empty
C11_Witness ==
  /\ last = "threw"
  /\ \E A \in 1..Len(ops) : rank(ops[A].vertex) % 2 = 0
  /\ Len(contractions_) > 0
  /\ contractions_[1] /= <<>>

\* no composite of the string leaves a rank inside [minrank, maxrank]
NoneInBand ==
  \A q \in FittingSeqs(elementary_contractions_, ops, operators_rank(ops) \div 2 + 1) :
     LET r == LeftoverRank(elementary_contractions_, q, ops)
     IN  ~(minrank <= r /\ r <= maxrank)

\* C12: when no composite of the string leaves a rank in the band, Step 3 starts
\* with nothing to process, and the call ends returned, with the empty Expression
\* and in neither error state, whatever the operators are.
C12_EmptyResult ==
  /\ (Generated /\ NoneInBand) =>
        contractions_ = <<>> /\ result = <<>> /\ last = "running"
  /\ (pc = "idle" /\ last /= "new" /\ NoneInBand) =>
        result = <<>> /\ last = "returned"

\* contract has returned the empty Expression for a string of odd operators and for
\* a band that none of its composites reaches
C12_Witness ==
  /\ pc = "idle"
  /\ last = "returned"
  /\ result = <<>>
  /\ OddLegs(ops)
  /\ Len(elementary_contractions_) > 0
  /\ NoneInBand

\* ---------------------------------------------------------------------------
\* WDiagOperatorSum: sum_ is a std::map from operator strings to scalars,
\* modelled as a function whose domain is the set of stored strings.
\* ---------------------------------------------------------------------------

MaxSumSteps == 3

MaxSumLen == 2

SumOps == {OpT1, OpFov}

SumStrings == UNION {[1..n -> SumOps] : n \in 1..MaxSumLen}

SumFactors == {Zero, One, RNeg(One), scalar_t(1, 2)}

EmptySum == [k \in {} |-> Zero]

\* order of WDiagOperator: label first, then the vertex
OperatorKey(op) == op.label \o VertexKey(op.vertex)

\* std::vector<WDiagOperator>::operator<, the key order of the map
VecOpLess(p, q) ==
  LET n == Min2(Len(p), Len(q))
  IN  \/ \E j \in 1..n : /\ LexLess(OperatorKey(p[j]), OperatorKey(q[j]))
                         /\ \A l \in 1..(j - 1) : p[l] = q[l]
      \/ (Len(p) < Len(q) /\ \A l \in 1..n : p[l] = q[l])

RECURSIVE KeysFrom(_)
KeysFrom(D) ==
  IF D = {} THEN <<>>
  ELSE LET k == CHOOSE c \in D : \A j \in D \ {c} : VecOpLess(c, j)
       IN  <<k>> \o KeysFrom(D \ {k})

\* the stored strings in iteration order of the map
Keys(S) == KeysFrom(DOMAIN S)

add(S, vec_dop, factor) ==
  IF vec_dop \in DOMAIN S
  THEN LET second == RAdd(S[vec_dop], factor)
       IN  IF second = Zero
           THEN [k \in (DOMAIN S) \ {vec_dop} |-> S[k]]
           ELSE [S EXCEPT ![vec_dop] = second]
  ELSE [k \in (DOMAIN S) \cup {vec_dop} |-> IF k = vec_dop THEN factor ELSE S[k]]

WDiagOperatorSum(vec_dop, factor) == add(EmptySum, vec_dop, factor)

RECURSIVE plus_from(_, _, _, _)
plus_from(S, rhs, keys, i) ==
  IF i > Len(keys) THEN S
  ELSE plus_from(add(S, keys[i], rhs[keys[i]]), rhs, keys, i + 1)

PlusAssign(S, rhs) == plus_from(S, rhs, Keys(rhs), 1)

RECURSIVE minus_from(_, _, _, _)
minus_from(S, rhs, keys, i) ==
  IF i > Len(keys) THEN S
  ELSE minus_from(add(S, keys[i], RNeg(rhs[keys[i]])), rhs, keys, i + 1)

MinusAssign(S, rhs) == minus_from(S, rhs, Keys(rhs), 1)

TimesAssign(S, factor) == [k \in DOMAIN S |-> RMul(S[k], factor)]

DivAssign(S, factor) == [k \in DOMAIN S |-> RDiv(S[k], factor)]

RECURSIVE commutator_from(_, _, _, _, _, _)
commutator_from(res, A, B, keysA, keysB, n) ==
  IF n > Len(keysA) * Len(keysB) THEN res
  ELSE LET vec_A == keysA[((n - 1) \div Len(keysB)) + 1]
           vec_B == keysB[((n - 1) % Len(keysB)) + 1]
           vec_AB == vec_A \o vec_B
           vec_BA == vec_B \o vec_A
           factor_A == A[vec_A]
           factor_B == B[vec_B]
           r1 == add(res, vec_AB, RMul(factor_A, factor_B))
           r2 == add(r1, vec_BA, RMul(RNeg(factor_A), factor_B))
       IN  commutator_from(r2, A, B, keysA, keysB, n + 1)

commutator(A, B) == commutator_from(EmptySum, A, B, Keys(A), Keys(B), 1)

\* ---------------------------------------------------------------------------
\* Operations on the two operator sums.
\* ---------------------------------------------------------------------------

SumConstruct(t, vec_dop, factor) ==
  /\ nsum < MaxSumSteps
  /\ sums' = [sums EXCEPT ![t] = WDiagOperatorSum(vec_dop, factor)]
  /\ nsum' = nsum + 1
  /\ UNCHANGED <<wick_vars, lift_vars>>

SumAdd(t, vec_dop, factor) ==
  /\ nsum < MaxSumSteps
  /\ sums' = [sums EXCEPT ![t] = add(sums[t], vec_dop, factor)]
  /\ nsum' = nsum + 1
  /\ UNCHANGED <<wick_vars, lift_vars>>

SumPlusAssign(t) ==
  /\ nsum < MaxSumSteps
  /\ sums' = [sums EXCEPT ![t] = PlusAssign(sums[t], sums[3 - t])]
  /\ nsum' = nsum + 1
  /\ UNCHANGED <<wick_vars, lift_vars>>

SumMinusAssign(t) ==
  /\ nsum < MaxSumSteps
  /\ sums' = [sums EXCEPT ![t] = MinusAssign(sums[t], sums[3 - t])]
  /\ nsum' = nsum + 1
  /\ UNCHANGED <<wick_vars, lift_vars>>

SumTimesAssign(t, factor) ==
  /\ nsum < MaxSumSteps
  /\ sums' = [sums EXCEPT ![t] = TimesAssign(sums[t], factor)]
  /\ nsum' = nsum + 1
  /\ UNCHANGED <<wick_vars, lift_vars>>

SumDivAssign(t, factor) ==
  /\ nsum < MaxSumSteps
  /\ factor /= Zero
  /\ sums' = [sums EXCEPT ![t] = DivAssign(sums[t], factor)]
  /\ nsum' = nsum + 1
  /\ UNCHANGED <<wick_vars, lift_vars>>

SumNext ==
  \/ \E t \in 1..2, vec_dop \in SumStrings, factor \in SumFactors : SumConstruct(t, vec_dop, factor)
  \/ \E t \in 1..2, vec_dop \in SumStrings, factor \in SumFactors : SumAdd(t, vec_dop, factor)
  \/ \E t \in 1..2 : SumPlusAssign(t)
  \/ \E t \in 1..2 : SumMinusAssign(t)
  \/ \E t \in 1..2, factor \in SumFactors : SumTimesAssign(t, factor)
  \/ \E t \in 1..2, factor \in SumFactors : SumDivAssign(t, factor)

SumSpec == Init /\ [][SumNext]_vars

Negated(S) == [k \in DOMAIN S |-> RNeg(S[k])]

\* C14: commutator(A, B) holds exactly the terms of commutator(B, A) with the
\* coefficients negated, and commutator(A, A) is the empty sum, for every pair
\* of operator sums.
C14_Antisymmetry ==
  /\ commutator(sums[1], sums[2]) = Negated(commutator(sums[2], sums[1]))
  /\ commutator(sums[1], sums[1]) = EmptySum
  /\ commutator(sums[2], sums[2]) = EmptySum

\* C15: after any sequence of construction, add, +=, -=, *= and /= no stored
\* entry of an operator sum has the scalar 0.
C15_NoZeroEntries ==
  \A t \in 1..2 : \A k \in DOMAIN sums[t] : sums[t][k] /= Zero

\* ---------------------------------------------------------------------------
\* The scenarios of tests/ccsd: contract(factor, oo, lo, hi) has returned.
\* ---------------------------------------------------------------------------

Returned(factor, oo, lo, hi) ==
  /\ pc = "idle" /\ last = "returned"
  /\ contract_factor = factor /\ ops = oo /\ minrank = lo /\ maxrank = hi

\* the recorded composites whose leftover rank is in the band
InBandComposites ==
  {i \in 1..Len(contractions_) :
     LET r == LeftoverRank(elementary_contractions_, contractions_[i], ops)
     IN  minrank <= r /\ r <= maxrank}

\* how often the composite q holds a pair contraction of space s
PairsIn(q, s) ==
  Cardinality({i \in 1..Len(q) : /\ vertices_rank(elementary_contractions_[q[i]]) = 2
                                 /\ InSpace(elementary_contractions_[q[i]], s)})

\* C16: contract(1, F*T1, 0, 0) with F = f[v->o] and T1 = t[o->v] has exactly one
\* composite in the band, made of one occupied and one unoccupied pair, and
\* returns a single term without leftover operators and with coefficient +1.
C16_E1 ==
  Returned(One, <<OpFov, OpT1>>, 0, 0) =>
    /\ Cardinality(InBandComposites) = 1
    /\ \A i \in InBandComposites :
          /\ Len(contractions_[i]) = 2
          /\ PairsIn(contractions_[i], 0) = 1
          /\ PairsIn(contractions_[i], 1) = 1
    /\ Len(result) = 1
    /\ result[1].term.sqops = <<>>
    /\ result[1].term.factor = <<1, 1>>

C16_Witness ==
  /\ Returned(One, <<OpFov, OpT1>>, 0, 0)
  /\ Len(result) = 1
  /\ Len(result[1].contraction_vec) = 2

\* C17: contract(1, V*T2, 0, 0) with V = v[vv->oo] and T2 = t[oo->vv], each with
\* operator factor 1/(2!*2!), has exactly one composite in the band, with the
\* occupied pair twice and the unoccupied pair twice, and returns a single term
\* with coefficient 1/4: combinatorial factor 4, operator factors 1/16, sign +1.
C17_E2 ==
  /\ OpV.factor = <<1, 4>>
  /\ OpT2.factor = <<1, 4>>
  /\ Returned(One, <<OpV, OpT2>>, 0, 0) =>
       /\ Cardinality(InBandComposites) = 1
       /\ \A i \in InBandComposites :
             /\ Len(contractions_[i]) = 4
             /\ PairsIn(contractions_[i], 0) = 2
             /\ PairsIn(contractions_[i], 1) = 2
             /\ Cardinality({contractions_[i][j] : j \in 1..4}) = 2
       /\ Len(result) = 1
       /\ result[1].term.comb_factor = <<4, 1>>
       /\ result[1].term.sign = 1
       /\ result[1].term.factor = <<1, 4>>

C17_Witness ==
  /\ Returned(One, <<OpV, OpT2>>, 0, 0)
  /\ Len(result) = 1
  /\ Len(result[1].contraction_vec) = 4

\* C18: contract(1/2, V*T1*T1, 0, 0) has exactly four elementary contractions and
\* exactly one composite in the band, which uses each of them once, and returns
\* a single term with coefficient 1/2.
C18_E3 ==
  Returned(<<1, 2>>, <<OpV, OpT1, OpT1>>, 0, 0) =>
    /\ Len(elementary_contractions_) = 4
    /\ Cardinality(InBandComposites) = 1
    /\ \A i \in InBandComposites :
          /\ Len(contractions_[i]) = 4
          /\ {contractions_[i][j] : j \in 1..4} = 1..4
    /\ Len(result) = 1
    /\ result[1].term.factor = <<1, 2>>

C18_Witness ==
  /\ Returned(<<1, 2>>, <<OpV, OpT1, OpT1>>, 0, 0)
  /\ Len(result) = 1
  /\ Len(result[1].contraction_vec) = 4

\* C19: the generator records the empty composite exactly when the total rank of
\* the operators is in the band; contract(1, F', 2, 2) with F' = f[o->v] returns
\* exactly one term, which holds the tensor of the operator, both of its
\* operators as leftovers with the creator before the annihilator, and
\* coefficient +1.
C19_E4 ==
  /\ (Generated \/ (pc = "idle" /\ last = "returned")) =>
       ((\E i \in 1..Len(contractions_) : contractions_[i] = <<>>)
          <=> (minrank <= operators_rank(ops) /\ operators_rank(ops) <= maxrank))
  /\ Returned(One, <<OpFvo>>, 2, 2) =>
       /\ Len(result) = 1
       /\ result[1].contraction_vec = <<>>
       /\ Len(result[1].term.tensors) = 1
       /\ result[1].term.tensors[1].label = OpFvo.label
       /\ Len(result[1].term.tensors[1].lower) = 1
       /\ Len(result[1].term.tensors[1].upper) = 1
       /\ Len(result[1].term.sqops) = 2
       /\ result[1].term.sqops[1].cre /\ result[1].term.sqops[1].space = 1
       /\ ~result[1].term.sqops[2].cre /\ result[1].term.sqops[2].space = 0
       /\ result[1].term.factor = <<1, 1>>

C19_Witness ==
  /\ Returned(One, <<OpFvo>>, 2, 2)
  /\ Len(result) = 1
  /\ contractions_ = <<<<>>>>

\* C20: for the band [2, 2], contract(1, Fvv*T1) with Fvv = f[v->v] and
\* contract(1, Foo*T1) with Foo = f[o->o] each return exactly one term, from
\* exactly one composite of a single pair contraction, with two leftover
\* operators; the coefficient is +1 for Fvv*T1 (unoccupied pair) and -1 for
\* Foo*T1 (occupied pair).
C20_E5E6 ==
  /\ Returned(One, <<OpFvv, OpT1>>, 2, 2) =>
       /\ Cardinality(InBandComposites) = 1
       /\ \A i \in InBandComposites :
             Len(contractions_[i]) = 1 /\ PairsIn(contractions_[i], 1) = 1
       /\ Len(result) = 1
       /\ Len(result[1].term.sqops) = 2
       /\ result[1].term.factor = <<1, 1>>
  /\ Returned(One, <<OpFoo, OpT1>>, 2, 2) =>
       /\ Cardinality(InBandComposites) = 1
       /\ \A i \in InBandComposites :
             Len(contractions_[i]) = 1 /\ PairsIn(contractions_[i], 0) = 1
       /\ Len(result) = 1
       /\ Len(result[1].term.sqops) = 2
       /\ result[1].term.factor = <<-1, 1>>

C20_Witness ==
  /\ Returned(One, <<OpFoo, OpT1>>, 2, 2)
  /\ Len(result) = 1
  /\ result[1].term.factor = <<-1, 1>>
  /\ result[1].term.unoccupied_sign = 1

\* ---------------------------------------------------------------------------
\* contract as a function of its arguments, and the contract of an operator
\* expression.  An Expression maps SymbolicTerms to scalars and an operator
\* expression maps operator strings to scalars; an entry with scalar 0 is dropped.
\* ---------------------------------------------------------------------------

EmptyExpression == [t \in {} |-> Zero]

Coefficient(E, t) == IF t \in DOMAIN E THEN E[t] ELSE Zero

\* operator+= of two expressions
ExpressionPlus(E, F) ==
  [t \in {u \in (DOMAIN E) \cup (DOMAIN F) : RAdd(Coefficient(E, u), Coefficient(F, u)) /= Zero}
     |-> RAdd(Coefficient(E, t), Coefficient(F, t))]

\* the product of an expression and a scalar
ExpressionTimes(E, c) ==
  [t \in {u \in DOMAIN E : RMul(E[u], c) /= Zero} |-> RMul(E[t], c)]

RECURSIVE generate_contractions_backtrack(_, _, _, _, _, _, _)
RECURSIVE backtrack_loop(_, _, _, _, _, _, _, _, _)
generate_contractions_backtrack(recorded, a, k, el, fv, lo, hi) ==
  backtrack_loop(process_contraction(recorded, a, k, fv, lo, hi), a, k + 1,
                 construct_candidates(a, k + 1, el, fv), 1, el, fv, lo, hi)

\* the loop over the candidates of depth k, from the i-th
backtrack_loop(recorded, a, k, candidates, i, el, fv, lo, hi) ==
  IF i > Len(candidates) THEN recorded
  ELSE LET a2 == WriteA(a, k, candidates[i])
           moved == make_move(a2, k, el, fv)
       IN  CHOOSE r \in
             {backtrack_loop(rec, a2, k, candidates, i + 1, el,
                             unmake_move(a2, k, el, moved), lo, hi) :
              rec \in {generate_contractions_backtrack(recorded, a2, k, el, moved, lo, hi)}} :
             TRUE

generate_composite_contractions(oo, el, lo, hi) ==
  generate_contractions_backtrack(<<>>, <<>>, 0, el, [A \in 1..Len(oo) |-> oo[A].vertex], lo, hi)

\* the loop of process_contractions from the n-th composite; acc holds the
\* Expression built so far and how the call has ended
RECURSIVE process_contractions(_, _, _, _, _, _, _, _)
process_contractions(acc, factor, oo, el, composites, n, lo, hi) ==
  IF n > Len(composites) \/ acc.last /= "returned" THEN acc
  ELSE IF ~InBand(term_rank(oo, el, composites[n]), lo, hi)
  THEN process_contractions(acc, factor, oo, el, composites, n + 1, lo, hi)
  ELSE IF HasOddOperator(oo) THEN [last |-> "threw", result |-> EmptyExpression]
  ELSE CHOOSE r \in
         {IF tf.not_found THEN [last |-> "exited", result |-> EmptyExpression]
          ELSE process_contractions(
                 [last |-> "returned",
                  result |-> ExpressionPlus(acc.result,
                               [t \in {[tensors |-> tf.tensors, sqops |-> tf.sqops]} |-> tf.factor])],
                 factor, oo, el, composites, n + 1, lo, hi) :
          tf \in {evaluate_contraction(oo,
                    canonicalize_contraction(oo, composite_contractions(el, composites[n])).best_contractions,
                    factor)}} : TRUE

contract(factor, oo, lo, hi) ==
  CHOOSE r \in
    {process_contractions([last |-> "returned", result |-> EmptyExpression], factor, oo, el,
                          generate_composite_contractions(oo, el, lo, hi), 1, lo, hi) :
     el \in {generate_elementary_contractions(oo, maxcumulant_)}} : TRUE

\* variant: the scalar of the term is not multiplied into the factor
contract_term_nof(acc, factor, oo, f, lo, hi) ==
  CHOOSE r \in
    {IF c.last /= "returned" THEN [last |-> c.last, result |-> EmptyExpression]
     ELSE [last |-> "returned", result |-> ExpressionPlus(acc.result, c.result)] :
     c \in {contract(factor, oo, lo, hi)}} : TRUE

\* result += contract(factor * f, ops, minrank, maxrank)
contract_term(acc, factor, oo, f, lo, hi) ==
  CHOOSE r \in
    {IF c.last /= "returned" THEN [last |-> c.last, result |-> EmptyExpression]
     ELSE [last |-> "returned", result |-> ExpressionPlus(acc.result, c.result)] :
     c \in {contract(RMul(factor, f), oo, lo, hi)}} : TRUE

RECURSIVE contract_expr_from(_, _, _, _, _, _)
contract_expr_from(acc, factor, expr, todo, lo, hi) ==
  IF todo = <<>> \/ acc.last /= "returned" THEN acc
  ELSE contract_expr_from(contract_term(acc, factor, Head(todo), expr[Head(todo)], lo, hi),
                          factor, expr, Tail(todo), lo, hi)

\* contract(factor, expr, minrank, maxrank) for an operator expression
contract_expr(factor, expr, lo, hi) ==
  contract_expr_from([last |-> "returned", result |-> EmptyExpression], factor, expr,
                     Keys(expr), lo, hi)

MaxLiftTerms == 2

LiftStrings == {<<OpFov, OpT1>>, <<OpFvo>>, <<OpC>>}

\* the operator expressions A and B: at most MaxLiftTerms strings with scalar 1 or -1
LiftExprs ==
  UNION {[D -> {One, RNeg(One)}] : D \in {X \in SUBSET LiftStrings : Cardinality(X) <= MaxLiftTerms}}

ContractExprStart(factor, alpha, A, beta, B, lo, hi) ==
  /\ lift_pc = "idle"
  /\ LET expr == ExpressionPlus(ExpressionTimes(A, alpha), ExpressionTimes(B, beta))
     IN  /\ lift_in' = [factor |-> factor, alpha |-> alpha, A |-> A, beta |-> beta, B |-> B,
                        minrank |-> lo, maxrank |-> hi, expr |-> expr]
         /\ lift_todo' = Keys(expr)
  /\ lift_result' = EmptyExpression
  /\ lift_pc' = "running"
  /\ UNCHANGED <<wick_vars, sum_vars>>

ContractExprTerm ==
  /\ lift_pc = "running"
  /\ lift_todo /= <<>>
  /\ \E r \in {contract_term([last |-> "returned", result |-> lift_result], lift_in.factor,
                             Head(lift_todo), lift_in.expr[Head(lift_todo)],
                             lift_in.minrank, lift_in.maxrank)} :
        IF r.last /= "returned"
        THEN /\ lift_pc' = "threw"
             /\ lift_result' = EmptyExpression
             /\ lift_todo' = <<>>
        ELSE /\ lift_result' = r.result
             /\ lift_todo' = Tail(lift_todo)
             /\ UNCHANGED lift_pc
  /\ UNCHANGED <<lift_in, wick_vars, sum_vars>>

ContractExprReturn ==
  /\ lift_pc = "running"
  /\ lift_todo = <<>>
  /\ lift_pc' = "returned"
  /\ UNCHANGED <<lift_in, lift_todo, lift_result, wick_vars, sum_vars>>

\* the caller is done with the Expression or with the exception
ContractExprDone ==
  /\ lift_pc \in {"returned", "threw"}
  /\ lift_in' = <<>>
  /\ lift_todo' = <<>>
  /\ lift_result' = <<>>
  /\ lift_pc' = "idle"
  /\ UNCHANGED <<wick_vars, sum_vars>>

LiftNext ==
  \/ \E factor \in {scalar_t(1, 2)}, alpha \in {Zero, scalar_t(1, 2)},
        beta \in {One, RNeg(One)}, A \in LiftExprs, B \in LiftExprs, b \in Bands :
        ContractExprStart(factor, alpha, A, beta, B, b[1], b[2])
  \/ ContractExprTerm
  \/ ContractExprReturn
  \/ ContractExprDone

LiftSpec == Init /\ [][LiftNext]_vars

RECURSIVE RSum(_)
RSum(q) == IF q = <<>> THEN Zero ELSE RAdd(Head(q), RSum(Tail(q)))

\* the sum over the terms (ops, f) of expr of contract(factor * f, ops, lo, hi)
SumOverTerms(factor, expr, lo, hi) ==
  LET keys == Keys(expr)
      each == [i \in 1..Len(keys) |-> contract(RMul(factor, expr[keys[i]]), keys[i], lo, hi).result]
      terms == UNION {DOMAIN each[i] : i \in 1..Len(keys)}
      total == [t \in terms |-> RSum([i \in 1..Len(keys) |-> Coefficient(each[i], t)])]
  IN  [t \in {u \in terms : total[u] /= Zero} |-> total[t]]

\* C13: the contract of an operator expression is the sum over its terms (ops, f) of
\* contract(factor * f, ops, minrank, maxrank); hence, whenever the contracts of A
\* and of B return, the contract of alpha*A + beta*B returns
\* alpha*contract(A) + beta*contract(B).
C13_Linearity ==
  LET cA == contract_expr(lift_in.factor, lift_in.A, lift_in.minrank, lift_in.maxrank)
      cB == contract_expr(lift_in.factor, lift_in.B, lift_in.minrank, lift_in.maxrank)
  IN  /\ lift_pc = "returned" =>
           lift_result = SumOverTerms(lift_in.factor, lift_in.expr, lift_in.minrank, lift_in.maxrank)
      /\ (lift_pc \in {"returned", "threw"} /\ cA.last = "returned" /\ cB.last = "returned") =>
           /\ lift_pc = "returned"
           /\ lift_result = ExpressionPlus(ExpressionTimes(cA.result, lift_in.alpha),
                                           ExpressionTimes(cB.result, lift_in.beta))

C13_Witness ==
  /\ lift_pc = "returned"
  /\ lift_in.alpha = scalar_t(1, 2)
  /\ lift_in.beta = RNeg(One)
  /\ Cardinality(DOMAIN lift_in.A) = 2
  /\ (DOMAIN lift_in.A) \cap (DOMAIN lift_in.B) /= {}
  /\ \E t \in DOMAIN lift_result : lift_result[t] = scalar_t(-3, 4)

\* C21: no lookup of vertex_vec_to_pos misses op_map: for every composite that
\* is canonicalized and evaluated the legs taken from an operator never exceed
\* the legs it has, no recorded term comes from a missed lookup and the
\* NOT FOUND exit is never taken.
C21_NoIndexMapMiss ==
  /\ last /= "exited"
  /\ \A i \in 1..Len(result) : ~result[i].term.not_found
  /\ Canonicalizing =>
       \A A \in 1..Len(ops) : \A s \in Spaces :
          /\ LegsTaken(elementary_contractions_, contractions_[nproc + 1], A, s, TRUE)
               <= op_cre(ops[A], s)
          /\ LegsTaken(elementary_contractions_, contractions_[nproc + 1], A, s, FALSE)
               <= op_ann(ops[A], s)

C21_Witness ==
  /\ pc = "process"
  /\ \E i \in 1..Len(result) :
        /\ Len(result[i].contraction_vec) >= 3
        /\ \E j \in 2..Len(result[i].contraction_vec) :
              result[i].contraction_vec[j] = result[i].contraction_vec[j - 1]
        /\ result[i].term.nsqops_contracted >= 6

\* the terms of contract(factor, oo, lo, hi) for strings of even operators, from
\* the arguments and the maximum cumulant rank K alone
TermsFromArguments(factor, oo, lo, hi, K) ==
  \E el \in {generate_elementary_contractions(oo, K)} :
  \E inband \in {SelectSeq(generate_composite_contractions(oo, el, lo, hi),
                           LAMBDA q : InBand(term_rank(oo, el, q), lo, hi))} :
     /\ Len(result) = Len(inband)
     /\ \A i \in 1..Len(inband) :
           /\ result[i].contraction_vec = inband[i]
           /\ result[i].term =
                 evaluate_contraction(oo,
                   canonicalize_contraction(oo, composite_contractions(el, inband[i])).best_contractions,
                   factor)

\* the indices of space s in the tensors of a term
IndicesOf(tensors, s) ==
  UNION {{tensors[o].lower[j] : j \in 1..Len(tensors[o].lower)}
           \cup {tensors[o].upper[j] : j \in 1..Len(tensors[o].upper)} : o \in 1..Len(tensors)}
    \cap ({s} \X (0..(2 * (MaxOps + 1))))

\* C22: for a fixed maximum cumulant rank what contract returns is a function of
\* its arguments alone, whatever calls were made before on the same object
\* (also calls that threw): every call starts from an empty list of elementary
\* contractions, an empty list of composites and a zero counter, and the index
\* numbers of every space restart at 0 in every evaluation.  The result is
\* compared when process_contractions has handled the last composite.
C22_NoStateLeak ==
  /\ pc = "cleared" =>
       /\ elementary_contractions_ = <<>>
       /\ contractions_ = <<>>
       /\ ncontractions_ = 0
       /\ result = <<>>
  /\ (pc = "process" /\ nproc = Len(contractions_)) =>
       /\ elementary_contractions_ = generate_elementary_contractions(ops, maxcumulant_)
       /\ contractions_ = generate_composite_contractions(ops, elementary_contractions_,
                                                          minrank, maxrank)
       /\ ncontractions_ = Len(contractions_)
       /\ TermsFromArguments(contract_factor, ops, minrank, maxrank, maxcumulant_)
       /\ \A i \in 1..Len(result) : \A s \in Spaces :
             LET used == IndicesOf(result[i].term.tensors, s)
             IN  used = {s} \X (0..(Cardinality(used) - 1))

C22_Witness ==
  /\ pc = "process" /\ nproc = Len(contractions_)
  /\ maxcumulant_ = 1
  /\ Len(result) >= 2
  /\ \E s \in Spaces : Cardinality(IndicesOf(result[1].term.tensors, s)) >= 4

(***************************************************************************)
(* C23: the ranks given to the operators by evaluate_contraction.          *)
(***************************************************************************)
\* the positions that the contractions from c on touch, in the order in which
\* the loop of evaluate_contraction visits them
RECURSIVE TouchedFrom(_, _, _, _)
TouchedFrom(sqops, contractions, c, ops_offset) ==
  IF c > Len(contractions) THEN <<>>
  ELSE LET cre_r == vertex_vec_to_pos(contractions[c], ops_offset, sqops, TRUE)
           ann_r == vertex_vec_to_pos(contractions[c], cre_r.ops_offset, sqops, FALSE)
       IN  cre_r.pos \o ann_r.pos \o TouchedFrom(sqops, contractions, c + 1, ann_r.ops_offset)

RankAssignment(oo, t) ==
  \E sqops \in {contraction_tensors_sqops(oo)} :
  \E touched \in {TouchedFrom(sqops, t.contractions, 1, ZeroVertices(Len(oo)))} :
    LET n == Len(sqops)
        contracted == {touched[j] : j \in 1..Len(touched)}
        uncontracted == (1..n) \ contracted
    IN  /\ Len(t.sign_order) = n
        \* no -1 is left and the ranks are a bijection onto 0..n-1
        /\ \A p \in 1..n : t.sign_order[p] \in 0..(n - 1)
        /\ \A p, q \in 1..n : t.sign_order[p] = t.sign_order[q] => p = q
        \* every contracted operator is touched once, by one contraction
        /\ \A j, l \in 1..Len(touched) : touched[j] = touched[l] => j = l
        /\ Len(touched) = t.nsqops_contracted
        \* the contracted operators hold 0..nsqops_contracted-1, in the order met
        /\ \A j \in 1..Len(touched) : t.sign_order[touched[j]] = j - 1
        /\ \A p \in uncontracted : t.sign_order[p] >= t.nsqops_contracted
        \* uncontracted creators come before uncontracted annihilators
        /\ \A p, q \in uncontracted :
              (sqops[p].cre /\ ~sqops[q].cre) => t.sign_order[p] < t.sign_order[q]
        \* what is left after the first nsqops_contracted are the uncontracted
        /\ Len(t.sqops) = n - t.nsqops_contracted
        /\ \A p \in uncontracted :
              t.sqops[t.sign_order[p] - t.nsqops_contracted + 1] = sqops[p]

\* C23: in every evaluated term sign_order has no -1 and is a bijection onto
\* 0..n-1, the contracted operators (each touched by exactly one elementary
\* contraction) hold exactly 0..nsqops_contracted-1, the uncontracted ones hold
\* the remaining values with every creator before every annihilator, and the
\* operators kept after the sort are exactly the uncontracted ones.  Every term
\* is looked at when process_contractions has just recorded it.
C23_RankAssignment ==
  Len(result) > 0 => RankAssignment(ops, result[Len(result)].term)

\* a term with two or more contractions that leaves a creator and an annihilator
C23_Witness ==
  \E i \in 1..Len(result) :
    /\ Len(result[i].term.contractions) >= 2
    /\ result[i].term.nsqops_contracted >= 4
    /\ \E j, l \in 1..Len(result[i].term.sqops) :
          result[i].term.sqops[j].cre /\ ~result[i].term.sqops[l].cre
    /\ RankAssignment(ops, result[i].term)

(***************************************************************************)
(* C24: the Fermi sign.                                                    *)
(***************************************************************************)
\* the positions reached from i by applying the permutation p of 0..n-1
RECURSIVE OrbitFrom(_, _, _)
OrbitFrom(p, i, seen) ==
  IF i \in seen THEN seen ELSE OrbitFrom(p, p[i] + 1, seen \cup {i})

\* parity of p from its cycles: (-1)^(n - number of cycles)
CycleParity(p) ==
  LET cycles == {OrbitFrom(p, i, {}) : i \in 1..Len(p)}
  IN  IF (Len(p) - Cardinality(cycles)) % 2 = 0 THEN 1 ELSE -1

\* a pair contraction of the space s whose annihilator lies in an operator to the
\* left of the operator of its creator
AnnihilatorFirst(contraction, s) ==
  \E A, B \in 1..Len(contraction) :
     A < B /\ contraction[A][s].ann = 1 /\ contraction[B][s].cre = 1

\* the contractions that change unoccupied_sign: unoccupied pairs and eta1
SignFlips(contractions) ==
  {c \in 1..Len(contractions) :
     /\ vertices_rank(contractions[c]) = 2
     /\ \/ InSpace(contractions[c], 1)
        \/ InSpace(contractions[c], 2) /\ AnnihilatorFirst(contractions[c], 2)}

\* C24: in every evaluated term unoccupied_sign is (-1)^m, m being the number of
\* unoccupied pair contractions plus the number of general pair contractions
\* whose annihilator precedes the creator (eta1); occupied pairs, gamma1 and
\* cumulants with k >= 2 do not count; the sign is unoccupied_sign times the
\* parity of sign_order, and it is the sign of the coefficient.  Every term is looked at
\* when process_contractions has just recorded it.
C24_FermiSign ==
  \A i \in {Len(result)} \ {0} :
    LET t == result[i].term
        m == Cardinality(SignFlips(t.contractions))
    IN  /\ t.unoccupied_sign = (IF m % 2 = 0 THEN 1 ELSE -1)
        /\ t.sign = t.unoccupied_sign * CycleParity(t.sign_order)
        /\ t.factor[1] /= 0
        /\ (t.factor[1] > 0) = (t.sign * contract_factor[1] > 0)

\* a term with an eta1, a gamma1 and a cumulant with k = 2
C24_Witness ==
  \E i \in 1..Len(result) :
    LET q == result[i].term.contractions
    IN  /\ \E c \in SignFlips(q) : InSpace(q[c], 2)
        /\ \E c \in 1..Len(q) : /\ vertices_rank(q[c]) = 2 /\ InSpace(q[c], 2)
                                /\ c \notin SignFlips(q)
        /\ \E c \in 1..Len(q) : vertices_rank(q[c]) = 4
        /\ result[i].term.unoccupied_sign = -1

(***************************************************************************)
(* C25: the operator string that evaluate_contraction is given.            *)
(***************************************************************************)
\* C25: every term that process_contractions records is evaluated on the
\* operator string returned by canonicalize_contraction (best_ops) together with
\* the reordered contractions: its operator tensors and their indices are those
\* of the canonical operator order.
C25_EvaluatedOnCanonicalString ==
  (pc = "process" /\ Len(result) > 0) =>
     /\ canon.contraction_vec = result[Len(result)].contraction_vec
     /\ result[Len(result)].term.contractions = canon.out.best_contractions
     /\ result[Len(result)].term.tensors = contraction_tensors(canon.out.best_ops)

(***************************************************************************)
(* C26: the combinatorial factor.                                          *)
(***************************************************************************)
\* the number of ways to pick k of n legs
Ways(n, k) == Cardinality({S \in SUBSET (1..n) : Cardinality(S) = k})

\* the legs of operator A in space s that are free before contraction c of q
FreeBefore(oo, q, c, A, s, cre) ==
  (IF cre THEN oo[A].vertex[s].cre ELSE oo[A].vertex[s].ann)
    - SumSeq([j \in 1..(c - 1) |-> IF cre THEN q[j][A][s].cre ELSE q[j][A][s].ann])

\* the product of the binomials over the contractions, the operators and the spaces
WaysProduct(oo, q) ==
  ProdSeq([c \in 1..Len(q) |->
     ProdSeq([A \in 1..Len(oo) |->
        ProdSeq([i \in 1..NumSpaces |->
           Ways(FreeBefore(oo, q, c, A, i - 1, TRUE), q[c][A][i - 1].cre)
           * Ways(FreeBefore(oo, q, c, A, i - 1, FALSE), q[c][A][i - 1].ann)])])])

\* the product of the multiplicities of the distinct contractions of q
Multiplicities(q) ==
  ProdSeq([c \in 1..Len(q) |->
     IF \E j \in 1..(c - 1) : q[j] = q[c] THEN 1
     ELSE Cardinality({j \in 1..Len(q) : q[j] = q[c]})])

\* C26: the combinatorial factor of every evaluated term is the product, over the
\* contractions in the order given and over every operator and space, of
\* binomial(free cre, cre taken) * binomial(free ann, ann taken) with the free
\* legs decremented after each contraction, divided by the multiplicity of each
\* distinct elementary contraction; listing the contractions in any other order
\* gives the same factor.  Every term is looked at
\* when process_contractions has just recorded it.
C26_CombinatorialFactor ==
  \A i \in {Len(result)} \ {0} :
    \E q \in {result[i].term.contractions} :
    \E f \in {result[i].term.comb_factor} :
      /\ f[1] * Multiplicities(q) = WaysProduct(ops, q) * f[2]
      /\ \A p \in AllPerms(Len(q)) :
            combinatorial_factor(ops, [j \in 1..Len(q) |-> q[p[j]]]) = f

\* a term with a repeated contraction between two different ones whose listing
\* can be reordered, and a factor other than 1
C26_Witness ==
  \E i \in 1..Len(result) :
    LET q == result[i].term.contractions
    IN  /\ Len(q) >= 4
        /\ Multiplicities(q) >= 4
        /\ WaysProduct(ops, q) >= 16
        /\ result[i].term.comb_factor = <<4, 1>>

(***************************************************************************)
(* C27: the combinatorial factor against a count of the leg assignments.   *)
(***************************************************************************)
\* the legs of the operators of oo in space s, creators or annihilators
Legs(oo, s, cre) ==
  {<<A, n>> : A \in 1..Len(oo), n \in 1..3} \cap
  {l \in (1..Len(oo)) \X (1..3) :
     l[2] <= (IF cre THEN oo[l[1]].vertex[s].cre ELSE oo[l[1]].vertex[s].ann)}

\* how many contractions of q pair a creator of A with an annihilator of B in space s
PairCount(q, s, A, B) ==
  Cardinality({c \in 1..Len(q) : /\ vertices_rank(q[c]) = 2
                                 /\ q[c][A][s].cre = 1 /\ q[c][B][s].ann = 1})

\* the sets of (creator leg, annihilator leg) pairs of space s in which no leg is
\* used twice and every pair of operators is joined as often as in q
LegAssignments(oo, q, s) ==
  {M \in SUBSET (Legs(oo, s, TRUE) \X Legs(oo, s, FALSE)) :
     /\ \A x, y \in M : (x[1] = y[1] \/ x[2] = y[2]) => x = y
     /\ \A A, B \in 1..Len(oo) :
           Cardinality({x \in M : x[1][1] = A /\ x[2][1] = B}) = PairCount(q, s, A, B)}

OnlyPairs(q) == \A c \in 1..Len(q) : vertices_rank(q[c]) = 2

\* C27: for every evaluated composite of pair contractions the combinatorial
\* factor is the number of distinct ways to choose the concrete legs; when one
\* pair contraction occurs m times between m free creators and m free
\* annihilators this is m!, for m = 3 as well.  Every term is looked at
\* when process_contractions has just recorded it.
C27_CountsLegAssignments ==
  \A i \in {Len(result)} \ {0} :
    OnlyPairs(result[i].term.contractions) =>
      result[i].term.comb_factor =
        <<ProdSeq([j \in 1..NumSpaces |->
                     Cardinality(LegAssignments(ops, result[i].term.contractions, j - 1))]), 1>>

(***************************************************************************)
(* The generator on a string whose composites outgrow the scratch vector.  *)
(***************************************************************************)
\* two operators with ScratchLen + 1 legs each: creators and annihilators of the
\* occupied space; their factor is read by evaluate_contraction only, which a
\* string of odd operators never reaches
OpMc == [label |-> <<109>>, factor |-> One,
         vertex |-> DiagVertex(<<ScratchLen + 1, 0, 0>>, <<0, 0, 0>>)]
OpMa == [label |-> <<110>>, factor |-> One,
         vertex |-> DiagVertex(<<0, 0, 0>>, <<ScratchLen + 1, 0, 0>>)]

\* an access a[k - 1] with k > ScratchLen is outside the vector: the write of the
\* loop body, or the read of process_contraction on the copy of a. The build may
\* end the process there; the other outcome, the access behaving as if the vector
\* were long enough, is the one MakeMove and Enter take.
ScratchOverrun ==
  /\ pc = "backtrack"
  /\ Top.k > ScratchLen
  /\ \/ Top.st = "loop" /\ Top.i <= Len(Top.candidates)
     \/ Top.st = "enter" /\ InBand(free_rank(free_vertex_vec), minrank, maxrank)
  /\ pc' = "idle"
  /\ last' = "crashed"
  /\ stack' = <<>>
  /\ UNCHANGED <<maxcumulant_, ops, minrank, maxrank, elementary_contractions_,
                 contractions_, ncontractions_, free_vertex_vec, nproc, canon, result>>
  /\ UNCHANGED <<contract_factor, sum_vars, lift_vars>>

ScratchNext ==
  \/ ContractClear
  \/ \E lo \in {0, 2 * ScratchLen} : ContractGenerate(One, <<OpMc, OpMa>>, lo, 2 * ScratchLen + 2)
  \/ Enter
  \/ MakeMove
  \/ UnmakeMove
  \/ BacktrackReturn
  \/ ProcessContraction
  \/ ScratchOverrun

ScratchSpec == Init /\ [][ScratchNext]_vars

\* C28: the length of the scratch vector is no bound: every write a[k - 1] = c
\* of the generator lands inside the vector, the process does not end there, and
\* composites of more than ScratchLen elementary contractions are generated and
\* recorded like the shorter ones.
C28_ScratchNotABound ==
  /\ last /= "crashed"
  /\ pc = "backtrack" => \A f \in 1..Len(stack) : Len(stack[f].a) <= ScratchLen

(***************************************************************************)
(* C29: the canonicalizer has a candidate and returns permutations.        *)
(***************************************************************************)
IsPermutation(p, n) ==
  /\ DOMAIN p = 1..n
  /\ \A i \in 1..n : p[i] \in 1..n
  /\ \A i, j \in 1..n : p[i] = p[j] => i = j

\* C29: whenever canonicalize_contraction is called for a string of even
\* operators, the identity permutation passes the left-mask test, so the list of
\* scored permutations is not empty when its first element is taken, and the
\* operators and contractions returned are the given ones in a permuted order
\* (same lengths, same multisets).
C29_AlwaysACandidate ==
  (Canonicalizing /\ ~OddLegs(ops)) =>
    \E q \in {composite_contractions(elementary_contractions_, contractions_[nproc + 1])} :
      /\ \A i \in 1..Len(ops) : left_masks(q, i) \subseteq 1..(i - 1)
      /\ scores(ops, q) /= {}
      /\ \E cn \in {canonicalize_contraction(ops, q)} :
            /\ Len(cn.best_ops) = Len(ops)
            /\ Len(cn.best_contractions) = Len(q)
            /\ IsPermutation(cn.best_ops_perm, Len(ops))
            /\ IsPermutation(cn.best_contr_perm, Len(q))
            /\ \A i \in 1..Len(ops) : cn.best_ops[i] = ops[cn.best_ops_perm[i]]
            /\ \A i \in 1..Len(q) : cn.best_contractions[i] = q[cn.best_contr_perm[i]]

\* three even operators, two of them joined, and a best permutation that is not
\* the identity
C29_Witness ==
  /\ Canonicalizing
  /\ ~OddLegs(ops)
  /\ Len(ops) = 3
  /\ \E q \in {composite_contractions(elementary_contractions_, contractions_[nproc + 1])} :
       /\ Len(q) >= 2
       /\ \E i \in 1..Len(ops) : left_masks(q, i) /= {}
       /\ \E i \in 1..Len(ops) : canonicalize_contraction(ops, q).best_ops_perm[i] /= i

(***************************************************************************)
(* C30: the unwinding of the backtracking.                                 *)
(***************************************************************************)
\* the legs of operator A left after the first d entries of a are applied
LegsAfter(oo, el, a, d, A) ==
  [s \in Spaces |->
     [cre |-> oo[A].vertex[s].cre - SumSeq([j \in 1..d |-> el[a[j]][A][s].cre]),
      ann |-> oo[A].vertex[s].ann - SumSeq([j \in 1..d |-> el[a[j]][A][s].ann])]]

\* C30: during the generation the free-vertex vector is the operators' vertices
\* minus the contractions on the current path, so every unmake_move undoes the
\* make_move before it and the vector is, after a recursive call returns, what it
\* was before that make_move; when generate_composite_contractions has finished
\* the vector equals the operators' original vertices; the list of elementary
\* contractions is not modified during the generation or the processing.
C30_UnwindRestores ==
  /\ [](pc = "backtrack" =>
          \A A \in 1..Len(ops) :
             free_vertex_vec[A] = LegsAfter(ops, elementary_contractions_, Top.a, Depth, A))
  /\ [](pc = "process" => free_vertex_vec = [A \in 1..Len(ops) |-> ops[A].vertex])
  /\ [][(pc = "backtrack" /\ Len(stack) > 1 /\ Len(stack') = Len(stack) - 1) =>
          \E caller \in {stack[Len(stack) - 1]} :
             free_vertex_vec = make_move(caller.a, caller.k, elementary_contractions_,
                                         free_vertex_vec')]_vars
  /\ [][(pc = "backtrack" \/ pc = "process") =>
          (elementary_contractions_' = elementary_contractions_)]_vars

\* a call two levels down has returned and its caller goes on with its loop
C30_Witness ==
  /\ pc = "backtrack"
  /\ Depth >= 2
  /\ Top.st = "loop"
  /\ Top.i > 1
  /\ Top.i <= Len(Top.candidates)
  /\ free_vertex_vec /= [A \in 1..Len(ops) |-> ops[A].vertex]

====
